---------------------------- MODULE Spec2Model ----------------------------
(***************************************************************************)
(* A model of the endless-depth zone core: the seeded generator and seed   *)
(* derivation (SeededRandom.js, SeedUtil.js), the freshness sampler        *)
(* (Freshness.js), the depth/modifier escalation (DepthRules), the zone    *)
(* generator (MapGenerator), the spawn grid (SpawnGrid) and the zone       *)
(* orchestrator (World).                                                   *)
(*                                                                         *)
(* Number representation.  An unsigned 32-bit word is a pair <<hi, lo>> of *)
(* 16-bit halves, so that every intermediate result stays inside the       *)
(* checker's integer range while the arithmetic wraps exactly as           *)
(* Math.imul, >>> and ^ do.  A float drawn by next() is the exact rational *)
(* u / 2^32 of the word u; coordinates are kept in whole units (the floor  *)
(* of the float), weights and densities in fixed point.                    *)
(***************************************************************************)
EXTENDS Integers, Sequences, FiniteSets, TLC

VARIABLES
  currentAct,     \* World.currentAct, Null before init
  currentZone,    \* World.currentZone, Null before init
  zoneIndex,      \* World.zoneIndex
  activeEnemies,  \* World.activeEnemies: the list of entities
  enemyGrid,      \* World.enemyGrid
  eliteGrid,      \* World.eliteGrid
  rngEncounters,  \* the state word of World.rngEncounters
  stateEnemies,   \* State.enemies: the ids of the entities, in order
  metaDepth,      \* State.meta.depth, the Depth/Modifier record
  metaFreshness,  \* State.meta.freshness, the Freshness record
  player,         \* State.player: [x, y]
  scene,          \* State.scene
  nextEnemyId,    \* the id the entity factory hands out next
  lastOp,         \* what the handler that ran last did
  zoneLog,        \* history: the zones loadZone produced, in order
  unlockLog,      \* history: the calls of maybeUnlock, in order
  pickLog,        \* history: the draws of Freshness.pick, in order
  genRun,         \* the two calls of MapGenerator.generate under comparison
  probe           \* the call of a library function made last: arguments and result

\* null for a record or a list; NullStr for a string; an optional number is the
\* empty tuple or the one-element tuple of the number
Null == [null |-> TRUE]
NullStr == "null"

\* F applied to the value of v, v being evaluated once and before F
Eval(v, F(_)) == CHOOSE y \in { F(x) : x \in { v } } : TRUE

(***************************************************************************)
(* 32-bit words                                                            *)
(***************************************************************************)
Half == 65536

\* bit w (a power of two) of a ^ b, and of a | b, in place
XorBit(a, b, w) == (((a \div w) + (b \div w)) % 2) * w
OrBit(a, b, w) == IF ((a \div w) % 2) + ((b \div w) % 2) > 0 THEN w ELSE 0

\* a ^ b on four bits, tabulated
XorNib ==
  [a \in 0..15 |-> [b \in 0..15 |->
     XorBit(a, b, 1) + XorBit(a, b, 2) + XorBit(a, b, 4) + XorBit(a, b, 8)]]

\* bitwise a ^ b on 16 bits
Xor16(a, b) ==
  XorNib[a % 16][b % 16]
  + 16 * XorNib[(a \div 16) % 16][(b \div 16) % 16]
  + 256 * XorNib[(a \div 256) % 16][(b \div 256) % 16]
  + 4096 * XorNib[(a \div 4096) % 16][(b \div 4096) % 16]

\* x ^ y on 32-bit words
Xor32(x, y) == << Xor16(x[1], y[1]), Xor16(x[2], y[2]) >>

\* x | c for a constant c < 64
OrLow(x, c) ==
  << x[1],
     (x[2] \div 64) * 64
     + OrBit(x[2], c, 1) + OrBit(x[2], c, 2) + OrBit(x[2], c, 4)
     + OrBit(x[2], c, 8) + OrBit(x[2], c, 16) + OrBit(x[2], c, 32) >>

RECURSIVE Pow(_, _)
Pow(b, e) == IF e = 0 THEN 1 ELSE b * Pow(b, e - 1)

\* 2^n for n in 0..16
Pow2(n) == << 1, 2, 4, 8, 16, 32, 64, 128, 256, 512, 1024, 2048, 4096, 8192,
              16384, 32768, 65536 >>[n + 1]

\* x >>> n, 1 <= n <= 16
Shr(x, n) ==
  LET p == Pow2(n)
      q == Pow2(16 - n)
  IN  << x[1] \div p, ((x[1] % p) * q + (x[2] \div p)) % Half >>

\* (x + y) mod 2^32
Add32(x, y) ==
  LET lo == x[2] + y[2]
  IN  << (x[1] + y[1] + (lo \div Half)) % Half, lo % Half >>

\* the full product of two 16-bit halves, as a word
Mul16(a, b) ==
  LET p1 == a * (b \div 256)
      p0 == a * (b % 256)
  IN  << (p1 + (p0 \div 256)) \div 256, ((p1 % 256) * 256 + p0) % Half >>

\* Math.imul(x, y): the low 32 bits of the product
Imul(x, y) ==
  LET ll == Mul16(x[2], y[2])
      c1 == Mul16(x[1], y[2])[2]
      c2 == Mul16(x[2], y[1])[2]
  IN  << (ll[1] + c1 + c2) % Half, ll[2] >>

\* a small non-negative number as a word (n >>> 0)
U32(n) == << (n \div Half) % Half, n % Half >>

\* floor(u * t / 2^32) for a word u and 0 <= t < 2^30: the integer part of
\* next() * t
MulHi(u, t) ==
  LET th == t \div Half
      tl == t % Half
      p0 == Mul16(u[2], tl)
      p1 == u[2] * th
      p2 == Mul16(u[1], tl)
      p3 == u[1] * th
      s1 == p0[1] + (p1 % Half) + p2[2]
  IN  p3 + (p1 \div Half) + p2[1] + (s1 \div Half)

\* whether u * t is a multiple of 2^32 (next() * t is a whole number)
MulExact(u, t) ==
  LET th == t \div Half
      tl == t % Half
      p0 == Mul16(u[2], tl)
      p1 == u[2] * th
      p2 == Mul16(u[1], tl)
      s1 == p0[1] + (p1 % Half) + p2[2]
  IN  p0[2] = 0 /\ s1 % Half = 0

(***************************************************************************)
(* SeededRandom.js                                                         *)
(***************************************************************************)
Mulberry == << 27947, 31221 >>   \* 0x6D2B79F5

\* the state word after one next()
Step(state) == Add32(state, Mulberry)

\* the word next() returns (before the division by 2^32) from the state it
\* has just advanced to
Output(state) ==
  LET T2(t1) == Xor32(t1, Add32(t1, Imul(Xor32(t1, Shr(t1, 7)), OrLow(t1, 61))))
      T3(t2) == Xor32(t2, Shr(t2, 14))
  IN  Eval(Eval(Imul(Xor32(state, Shr(state, 15)), OrLow(state, 1)), T2), T3)

\* the state after k calls of next(): k times 0x6D2B79F5 added, modulo 2^32
Advance(state, k) == Add32(state, Imul(U32(k), Mulberry))

\* the word of the k-th next() (k >= 1) of a generator in state `state`
rngNext(state, k) == Eval(Advance(state, k), Output)

\* int, range and chance on the word u that next() returned:
\* floor(min + next() * (max + 1 - min)), min + next() * (max - min) in whole
\* units, and next() < num / den
IntOf(u, min, max) == min + MulHi(u, max + 1 - min)
RangeOf(u, min, max) == min + MulHi(u, max - min)
ChanceOf(u, num, den) == MulHi(u, den) < num

\* rng.int(min, max) on the k-th draw
rngInt(state, k, min, max) == IntOf(rngNext(state, k), min, max)

\* rng.range(min, max) on the k-th draw, in whole units
rngRange(state, k, min, max) == RangeOf(rngNext(state, k), min, max)

\* rng.chance(num / den) on the k-th draw
rngChance(state, k, num, den) == ChanceOf(rngNext(state, k), num, den)

\* rng.pick(array) on the k-th draw
rngPick(state, k, array) ==
  IF Len(array) = 0 THEN NullStr ELSE array[rngInt(state, k, 0, Len(array) - 1) + 1]

RECURSIVE FromStringFrom(_, _, _)
FromStringFrom(str, i, hash) ==
  IF i > Len(str) THEN hash
  ELSE Eval(Add32(Imul(hash, U32(31)), U32(str[i])),
            LAMBDA h : FromStringFrom(str, i + 1, h))

\* SeededRandom.fromString: hash = ((hash << 5) - hash) + char, 32-bit
FromString(str) == FromStringFrom(str, 1, U32(0))

(***************************************************************************)
(* SeedUtil.js                                                             *)
(***************************************************************************)
MixC1 == << 34283, 51819 >>   \* 0x85ebca6b
MixC2 == << 49842, 44597 >>   \* 0xc2b2ae35
SeedBase == << 42405, 42405 >> \* 0xA5A5A5A5

mixSeed(seed, value) ==
  LET X1(x0) == Imul(Xor32(x0, Shr(x0, 16)), MixC1)
      X2(x1) == Imul(Xor32(x1, Shr(x1, 13)), MixC2)
      X3(x2) == Xor32(x2, Shr(x2, 16))
  IN  Eval(Eval(Eval(Xor32(seed, value), X1), X2), X3)

RECURSIVE seedFromPartsFrom(_, _, _)
seedFromPartsFrom(parts, i, s) ==
  IF i > Len(parts) THEN s
  ELSE Eval(mixSeed(s, parts[i]), LAMBDA t : seedFromPartsFrom(parts, i + 1, t))

\* seedFromParts(...parts): the parts are given already converted by
\* partToU32 (a number as the word itself, a string as FromString of it)
seedFromParts(parts) == seedFromPartsFrom(parts, 1, SeedBase)


(***************************************************************************)
(* Small helpers on sequences                                              *)
(***************************************************************************)
RECURSIVE SumWeights(_, _)
\* the sum of the weights of the first n rows
SumWeights(rows, n) == IF n = 0 THEN 0 ELSE SumWeights(rows, n - 1) + rows[n].weight

Contains(seq, v) == \E i \in 1..Len(seq) : seq[i] = v

Min(a, b) == IF a < b THEN a ELSE b
Max(a, b) == IF a > b THEN a ELSE b
clamp(v, a, b) == Max(a, Min(b, v))

\* whether the float next() * total, for the word u, is <= acc
DrawLeq(u, total, acc) ==
  MulHi(u, total) < acc \/ (MulHi(u, total) = acc /\ MulExact(u, total))

(***************************************************************************)
(* Freshness.js.  A freshness record is [window, recent]; Null stands for  *)
(* a profile that has none yet.  Weights are integers in hundredths; a     *)
(* penalty base is a fraction [num, den], and a penalised weight is kept   *)
(* in units of 1 / (100 * den^window), which is exact since a key occurs   *)
(* at most window times in the history.                                    *)
(***************************************************************************)
DefaultWindow == 8
DefaultPenalty == [num |-> 1, den |-> 4]

\* Freshness.ensure(meta, cfg): cfgWindow is cfg.window, << >> when absent
FreshnessEnsure(f, cfgWindow) ==
  LET f0 == IF f = Null THEN [window |-> DefaultWindow, recent |-> << >>] ELSE f
      w0 == IF cfgWindow # << >> THEN cfgWindow[1] ELSE f0.window
      w  == Max(1, Min(64, w0))
      n  == Len(f0.recent)
  IN  [window |-> w,
       recent |-> IF n > w THEN SubSeq(f0.recent, n - w + 1, n) ELSE f0.recent]

\* Freshness.count(meta, key)
FreshnessCount(f, key) ==
  IF f = Null THEN 0 ELSE Cardinality({i \in 1..Len(f.recent) : f.recent[i] = key})

\* the base applyPenalty uses: penaltyBase when it is a number in (0,1)
PenaltyBase(penaltyBase) ==
  IF penaltyBase # Null /\ penaltyBase.num > 0 /\ penaltyBase.num < penaltyBase.den
  THEN penaltyBase ELSE DefaultPenalty

\* applyPenalty that ignores the count
applyPenaltyFlat(weight, countRecent, penaltyBase, scale) ==
  weight * Pow(PenaltyBase(penaltyBase).den, scale)

\* Freshness.applyPenalty(weight, countRecent, penaltyBase), in units of
\* 1 / den^scale of the weight's unit
applyPenalty(weight, countRecent, penaltyBase, scale) ==
  LET b == PenaltyBase(penaltyBase)
      c == Max(0, countRecent)
  IN  weight * Pow(b.num, c) * Pow(b.den, scale - c)

\* a push that drops the newest entries on overflow
FreshnessPushFront(f, key) ==
  LET g == FreshnessEnsure(f, << >>)
      r == Append(g.recent, key)
  IN  [window |-> g.window,
       recent |-> IF Len(r) > g.window THEN SubSeq(r, 1, g.window) ELSE r]

\* Freshness.push(meta, key)
FreshnessPush(f, key) ==
  LET g == FreshnessEnsure(f, << >>)
      r == Append(g.recent, key)
      n == Len(r)
  IN  [window |-> g.window,
       recent |-> IF n > g.window THEN SubSeq(r, n - g.window + 1, n) ELSE r]

\* the rows Freshness.pick weighs: options[i] with its key and penalised weight
PenalisedRows(options, keys, f, penaltyBase) ==
  LET scale == IF f = Null THEN 0 ELSE Len(f.recent)
  IN  [i \in 1..Len(options) |->
         [opt |-> i, key |-> keys[i],
          weight |-> applyPenalty(Max(0, options[i].weight),
                                  FreshnessCount(f, keys[i]), penaltyBase, scale)]]

UnpenalisedRows(options, keys) ==
  [i \in 1..Len(options) |->
     [opt |-> i, key |-> keys[i], weight |-> Max(0, options[i].weight)]]

RECURSIVE FirstRow(_, _, _, _)
\* the first row whose running sum reaches the draw; the last row otherwise
FirstRow(rows, u, total, i) ==
  IF i >= Len(rows) THEN Len(rows)
  ELSE IF DrawLeq(u, total, SumWeights(rows, i)) THEN i
  ELSE FirstRow(rows, u, total, i + 1)

\* the selection of Freshness.pick among the penalised rows pen, or among the
\* unpenalised rows raw when the penalised weights sum to nothing
PickAmong(u, pen, raw) ==
  IF SumWeights(pen, Len(pen)) > 0 THEN FirstRow(pen, u, SumWeights(pen, Len(pen)), 1)
  ELSE IF SumWeights(raw, Len(raw)) > 0
    THEN FirstRow(raw, u, SumWeights(raw, Len(raw)), 1)
  ELSE 1

\* Freshness.pick(rng, options, keyFn, meta, penaltyBase) with u the word of
\* the rng's next(): the index of the selected option, 0 for no option
FreshnessPick(u, options, keys, f, penaltyBase) ==
  IF Len(options) = 0 THEN 0
  ELSE PickAmong(u, PenalisedRows(options, keys, f, penaltyBase),
                 UnpenalisedRows(options, keys))

(***************************************************************************)
(* DepthRules (src/runtime/Input.js, lines 200-327).  The Depth/Modifier   *)
(* record is [bestDepth, unlocked, lastUnlockAt]; Null stands for a        *)
(* profile that has none yet.  Modifier weights are integers in tenths.    *)
(***************************************************************************)
DEFAULT_POOL ==
  << [id |-> "ELITE_PACKS", weight |-> 12],
     [id |-> "BULLET_HELL", weight |-> 9],
     [id |-> "FAST_ENEMIES", weight |-> 11],
     [id |-> "CRAMPED_ZONE", weight |-> 8],
     [id |-> "MINEFIELD", weight |-> 10],
     [id |-> "DENSE_OBSTACLES", weight |-> 9],
     [id |-> "RICH_LOOT", weight |-> 6] >>

UNLOCK_EVERY_DEPTH == 25

\* DepthRules.ensureMeta()
ensureMeta(md) ==
  IF md = Null THEN [bestDepth |-> 1, unlocked |-> << >>, lastUnlockAt |-> 0] ELSE md

\* DepthRules.modifierSlots(depth)
modifierSlots(depth) ==
  IF depth < 25 THEN 1
  ELSE IF depth < 50 THEN 2
  ELSE IF depth < 100 THEN 3
  ELSE IF depth < 200 THEN 4
  ELSE 5 + ((depth - 200) \div 150)

\* the pool maybeUnlock and sampleActive read: the act's override or the default
ModifierPool(actConfig) ==
  IF actConfig # Null /\ actConfig.modifiers # Null /\ actConfig.modifiers.pool # Null
  THEN actConfig.modifiers.pool ELSE DEFAULT_POOL

\* the baseline sampleActive reads
ModifierBaseline(actConfig) ==
  IF actConfig # Null /\ actConfig.modifiers # Null /\ actConfig.modifiers.baseline # Null
  THEN actConfig.modifiers.baseline ELSE << "ELITE_PACKS" >>

\* DepthRules.weightedPick(list, rng) with u the word of rng.next(): r = next() *
\* total, then the first item at which r minus the weights so far is <= 0
weightedPick(list, u) ==
  list[FirstRow(list, u, SumWeights(list, Len(list)), 1)]

\* the end of maybeUnlock: the id picked is pushed and the milestone recorded
Unlocked(m0, milestone, id) ==
  [meta |-> [m0 EXCEPT !.unlocked = Append(@, id), !.lastUnlockAt = milestone],
   result |-> id]

\* maybeUnlock without the check of the milestone against lastUnlockAt
UnlockAtUnguarded(m0, depth, milestone, candidates, rng) ==
  IF depth < UNLOCK_EVERY_DEPTH THEN [meta |-> m0, result |-> NullStr]
  ELSE IF Len(candidates) = 0
    THEN [meta |-> [m0 EXCEPT !.lastUnlockAt = milestone], result |-> NullStr]
  ELSE Unlocked(m0, milestone, weightedPick(candidates, rngNext(rng, 1)).id)

\* maybeUnlock on the record m0 that ensureMeta leaves, for the milestone and
\* the candidates not yet unlocked
UnlockAt(m0, depth, milestone, candidates, rng) ==
  IF depth < UNLOCK_EVERY_DEPTH THEN [meta |-> m0, result |-> NullStr]
  ELSE IF milestone <= m0.lastUnlockAt THEN [meta |-> m0, result |-> NullStr]
  ELSE IF Len(candidates) = 0
    THEN [meta |-> [m0 EXCEPT !.lastUnlockAt = milestone], result |-> NullStr]
  ELSE Unlocked(m0, milestone, weightedPick(candidates, rngNext(rng, 1)).id)

\* maybeUnlock that draws from the whole pool
maybeUnlockWholePool(md, depth, actConfig, rng) ==
  UnlockAt(ensureMeta(md), depth, (depth \div UNLOCK_EVERY_DEPTH) * UNLOCK_EVERY_DEPTH,
           ModifierPool(actConfig), rng)

\* DepthRules.maybeUnlock(depth, actConfig, rng): the record afterwards and the
\* value returned
maybeUnlock(md, depth, actConfig, rng) ==
  UnlockAt(ensureMeta(md), depth, (depth \div UNLOCK_EVERY_DEPTH) * UNLOCK_EVERY_DEPTH,
           SelectSeq(ModifierPool(actConfig),
                     LAMBDA m : ~Contains(ensureMeta(md).unlocked, m.id)),
           rng)

RECURSIVE SampleLoop(_, _, _, _, _)
\* the loop of sampleActive: slot i draws once from the candidates not yet used
SampleLoop(available, rng, i, slots, picked) ==
  LET cand == SelectSeq(available, LAMBDA m : ~Contains(picked, m.id))
  IN  IF i > slots \/ Len(cand) = 0 THEN picked
      ELSE Eval(Append(picked, weightedPick(cand, rngNext(rng, i)).id),
                LAMBDA p : SampleLoop(available, rng, i + 1, slots, p))

\* the slots of a depth, not clamped
SampleSlotsOpen(depth) == modifierSlots(depth)

\* the slots sampleActive fills at a depth
SampleSlots(depth) == clamp(modifierSlots(depth), 0, 8)

\* sampleActive that leaves the baseline out
sampleActiveUnlocked(md, depth, actConfig, rng) ==
  LET m0        == ensureMeta(md)
      pool      == ModifierPool(actConfig)
      available == SelectSeq(pool, LAMBDA m : Contains(m0.unlocked, m.id))
      slots     == SampleSlots(depth)
  IN  IF Len(available) = 0 THEN << >>
      ELSE SampleLoop(available, rng, 1, slots, << >>)

\* DepthRules.sampleActive(depth, actConfig, rng): the list of active modifier ids
sampleActive(md, depth, actConfig, rng) ==
  LET m0        == ensureMeta(md)
      pool      == ModifierPool(actConfig)
      baseline  == ModifierBaseline(actConfig)
      available == SelectSeq(pool, LAMBDA m : Contains(m0.unlocked, m.id)
                                               \/ Contains(baseline, m.id))
      slots     == SampleSlots(depth)
  IN  IF Len(available) = 0 THEN << >>
      ELSE SampleLoop(available, rng, 1, slots, << >>)

\* a recordDepth that keeps the last depth instead of the best
recordDepthLast(md, depth) == [ensureMeta(md) EXCEPT !.bestDepth = depth]

\* DepthRules.recordDepth(depth)
recordDepth(md, depth) ==
  LET m0 == ensureMeta(md)
  IN  IF depth > m0.bestDepth THEN [m0 EXCEPT !.bestDepth = depth] ELSE m0

(***************************************************************************)
(* MapGenerator (src/unnamed/part_001).  Densities are integers in units   *)
(* of 1e-11 per unit area, multiplied in the order of the code and floored *)
(* after each factor; a factor is a fraction num / den.  The parallax      *)
(* layers and the decorations (visual only, drawn after everything the     *)
(* zone's gameplay fields draw) are left out of the zone.                  *)
(***************************************************************************)
\* v * num / den on a fixed-point value, floored, without leaving 32 bits
scale(v, num, den) == (v \div den) * num + ((v % den) * num) \div den

\* Math.floor(w * h * density), density in units of 1e-11: the product by
\* long multiplication in base 10^4
CountFor(w, h, density) ==
  LET area == w * h
      a1 == area \div 10000
      a0 == area % 10000
      d2 == density \div 100000000
      d1 == (density \div 10000) % 10000
      d0 == density % 10000
      q1 == a1 * d0 + a0 * d1 + ((a0 * d0) \div 10000)
      q2 == a1 * d1 + a0 * d2 + (q1 \div 10000)
  IN  (q2 + a1 * d2 * 10000) \div 1000

\* dx^2 + dy^2, the square of Math.hypot(dx, dy)
Dist2(ax, ay, bx, by) == (ax - bx) * (ax - bx) + (ay - by) * (ay - by)

\* the number of next() calls of pickRange(v, ...) in generate
pickRangeDraws(v) == IF Len(v) = 1 THEN 0 ELSE 1

\* pickRange(v, fallbackMin, fallbackMax) in generate, on draw k of the meso
\* stream: v is << >> (absent), <<n>> (a number) or <<min, max>>
pickRange(rng, k, v, fallbackMin, fallbackMax) ==
  IF Len(v) = 1 THEN v[1]
  ELSE rngInt(rng, k, IF Len(v) >= 2 THEN v[1] ELSE fallbackMin,
                      IF Len(v) >= 2 THEN v[2] ELSE fallbackMax)

\* the switch of generateSpawnPoint, u being the word of the second draw
SpawnPointOn(edge, u, w, h) ==
  CASE edge = "bottom" -> [x |-> RangeOf(u, 100, w - 100), y |-> h - 100]
    [] edge = "left"   -> [x |-> 100, y |-> RangeOf(u, 100, h - 100)]
    [] edge = "right"  -> [x |-> w - 100, y |-> RangeOf(u, 100, h - 100)]
    [] OTHER           -> [x |-> w \div 2, y |-> h - 100]

\* generateSpawnPoint(rng, w, h, cfg): draws k + 1 and k + 2
generateSpawnPoint(rng, k, w, h) ==
  SpawnPointOn(rngPick(rng, k + 1, << "bottom", "left", "right" >>),
               rngNext(rng, k + 2), w, h)

\* the branches of generateExitPoint, u being the word of its draw
ExitPointOn(u, spawn, w, h) ==
  IF 2 * spawn.y > h THEN [x |-> RangeOf(u, 100, w - 100), y |-> 100]
  ELSE IF 2 * spawn.x < w THEN [x |-> w - 100, y |-> RangeOf(u, 100, h - 100)]
  ELSE [x |-> 100, y |-> RangeOf(u, 100, h - 100)]

\* generateExitPoint(rng, spawn, w, h): draw k + 1
generateExitPoint(rng, k, spawn, w, h) == ExitPointOn(rngNext(rng, k + 1), spawn, w, h)

\* the minimum separation generateEnemySpawns uses for a layout
minDistBetween(layout) ==
  CASE layout = "CRAMPED"   -> 115
    [] layout = "CORRIDOR"  -> 140
    [] layout = "OPEN"      -> 165
    [] layout = "CLUTTERED" -> 120
    [] OTHER                -> 150

PatrolKinds == << "static", "circle", "line", "wander" >>

\* the number of next() calls of rng.pick(array)
pickDraws(array) == IF Len(array) = 0 THEN 0 ELSE 1

\* the corridor bias of an attempt: x0 and y are drawn, u3 is the word of the
\* chance and u4 the word of the second x; the position and the draws made
EnemyBias(w, x0, y, cor, u3, u4, k) ==
  IF cor /\ ChanceOf(u3, 7, 10)
  THEN [x |-> (35 * w + MulHi(u4, 30 * w)) \div 100, y |-> y, draws |-> k + 4]
  ELSE [x |-> x0, y |-> y, draws |-> k + 2 + (IF cor THEN 1 ELSE 0)]

\* the position attempt i of generateEnemySpawns draws, after k draws
EnemyPosition(rng, w, h, layout, k) ==
  EnemyBias(w, rngRange(rng, k + 1, 100, w - 100), rngRange(rng, k + 2, 100, h - 100),
            layout = "CORRIDOR", rngNext(rng, k + 3), rngNext(rng, k + 4), k)

\* an attempt that is not checked against the spawns accepted before
EnemyPlacedApart(rng, pool, spawn, exit, layout, spawns, p) ==
  IF \/ Dist2(p.x, p.y, spawn.x, spawn.y) < 300 * 300
     \/ Dist2(p.x, p.y, exit.x, exit.y) < 200 * 200
  THEN [draws |-> p.draws, added |-> << >>]
  ELSE [draws |-> p.draws + pickDraws(pool) + 2,
        added |-> << [x |-> p.x, y |-> p.y,
                      type |-> rngPick(rng, p.draws + 1, pool),
                      patrol |-> rngPick(rng, p.draws + pickDraws(pool) + 1, PatrolKinds),
                      patrolRadius |-> rngInt(rng, p.draws + pickDraws(pool) + 2, 50, 150),
                      active |-> FALSE, killed |-> FALSE, enemyId |-> 0] >>]

\* the distance checks of an attempt at position p and, when they pass, the
\* spawn pushed: the draws made and the list of the spawns added
EnemyPlaced(rng, pool, spawn, exit, layout, spawns, p) ==
  IF \/ Dist2(p.x, p.y, spawn.x, spawn.y) < 300 * 300
     \/ Dist2(p.x, p.y, exit.x, exit.y) < 200 * 200
     \/ \E j \in 1..Len(spawns) :
          Dist2(p.x, p.y, spawns[j].x, spawns[j].y)
            < minDistBetween(layout) * minDistBetween(layout)
  THEN [draws |-> p.draws, added |-> << >>]
  ELSE [draws |-> p.draws + pickDraws(pool) + 2,
        added |-> << [x |-> p.x, y |-> p.y,
                      type |-> rngPick(rng, p.draws + 1, pool),
                      patrol |-> rngPick(rng, p.draws + pickDraws(pool) + 1, PatrolKinds),
                      patrolRadius |-> rngInt(rng, p.draws + pickDraws(pool) + 2, 50, 150),
                      active |-> FALSE, killed |-> FALSE, enemyId |-> 0] >>]

RECURSIVE EnemyLoop(_, _, _, _, _, _, _, _, _, _, _)
\* the loop of generateEnemySpawns: attempt i (from 0) after k draws of the
\* micro stream; the result is the accepted spawns, the draws consumed and
\* the attempts made
EnemyLoop(rng, pool, count, w, h, spawn, exit, layout, i, k, spawns) ==
  IF ~(i < count * 3 /\ Len(spawns) < count)
  THEN [spawns |-> spawns, draws |-> k, attempts |-> i]
  ELSE Eval(Eval(EnemyPosition(rng, w, h, layout, k),
                 LAMBDA p : EnemyPlaced(rng, pool, spawn, exit, layout, spawns, p)),
            LAMBDA a : EnemyLoop(rng, pool, count, w, h, spawn, exit, layout, i + 1,
                                 a.draws, spawns \o a.added))

\* a placement whose loop runs to one more than the target count
generateEnemySpawnsOneMore(rng, k, pool, density, w, h, spawn, exit, layout) ==
  EnemyLoop(rng, pool, CountFor(w, h, density) + 1, w, h, spawn, exit, layout, 0, k, << >>)

\* generateEnemySpawns(rng, pool, density, w, h, spawn, exit, {layout}), the
\* micro stream having made k draws
generateEnemySpawns(rng, k, pool, density, w, h, spawn, exit, layout) ==
  EnemyLoop(rng, pool, CountFor(w, h, density), w, h, spawn, exit, layout, 0, k, << >>)

RECURSIVE EliteLoop(_, _, _, _, _, _, _, _)
EliteLoop(rng, pool, count, w, h, i, k, spawns) ==
  IF i >= count THEN [spawns |-> spawns, draws |-> k]
  ELSE Eval(<< k + 2 + pickDraws(pool),
               Append(spawns,
                 [x |-> rngRange(rng, k + 1, 200, w - 200),
                  y |-> rngRange(rng, k + 2, 200, h - 200),
                  type |-> rngPick(rng, k + 3, pool),
                  patrol |-> NullStr, patrolRadius |-> 0,
                  active |-> FALSE, killed |-> FALSE, enemyId |-> 0]) >>,
            LAMBDA a : EliteLoop(rng, pool, count, w, h, i + 1, a[1], a[2]))

\* generateEliteSpawns(rng, pool, density, w, h)
generateEliteSpawns(rng, k, pool, density, w, h) ==
  EliteLoop(rng, pool, Max(1, CountFor(w, h, density)), w, h, 0, k, << >>)

\* the x of an obstacle from the word u of its draw: in a corridor that took
\* the side branch it lies in the left or the right quarter
ObstacleXAt(w, side, left, u) ==
  IF side
  THEN IF left THEN (400 + MulHi(u, w - 400)) \div 4
       ELSE (3 * w + MulHi(u, w - 400)) \div 4
  ELSE RangeOf(u, 100, w - 100)

\* the x of an obstacle and the draws made once it is drawn: the type is draw
\* k + 1, the side chance follows in a corridor and the left chance on a side
ObstacleXOn(rng, w, k, cor, side, left) ==
  [x |-> ObstacleXAt(w, side, left,
           rngNext(rng, k + 2 + (IF cor THEN 1 ELSE 0) + (IF side THEN 1 ELSE 0))),
   draws |-> k + 2 + (IF cor THEN 1 ELSE 0) + (IF side THEN 1 ELSE 0)]

ObstacleX(rng, w, k, cor) ==
  ObstacleXOn(rng, w, k, cor, cor /\ rngChance(rng, k + 2, 6, 10),
              rngChance(rng, k + 3, 5, 10))

\* the obstacle pushed, of the type and at the x drawn (xk.draws draws made):
\* then y, the radius, the rotation (a display angle) and the hit points
ObstacleMade(rng, h, depth, type, xk) ==
  [draws |-> xk.draws + 3 + (IF type = "asteroid" THEN 1 ELSE 0),
   obstacle |->
     [x |-> xk.x, y |-> rngRange(rng, xk.draws + 1, 100, h - 100), type |-> type,
      radius |-> IntOf(rngNext(rng, xk.draws + 2),
                       IF type = "asteroid" THEN 30 ELSE 15,
                       IF type = "asteroid" THEN 80 ELSE 30),
      destructible |-> TRUE,
      hp |-> IF type = "asteroid" THEN rngInt(rng, xk.draws + 4, 25, 60)
             ELSE IF type = "mine" THEN 6 ELSE 12,
      damage |-> IF type = "mine" THEN 8 + (depth \div 4) ELSE 0]]

\* the type pool of the obstacles
ObstacleTypes(mods) ==
  IF Contains(mods, "MINEFIELD") THEN << "asteroid", "debris", "mine", "mine" >>
  ELSE << "asteroid", "debris" >>

RECURSIVE ObstacleLoop(_, _, _, _, _, _, _, _, _, _)
ObstacleLoop(rng, count, w, h, depth, mods, layout, i, k, obstacles) ==
  IF i >= count THEN obstacles
  ELSE Eval(Eval(<< rngPick(rng, k + 1, ObstacleTypes(mods)),
                    ObstacleX(rng, w, k, layout = "CORRIDOR") >>,
                 LAMBDA t : ObstacleMade(rng, h, depth, t[1], t[2])),
            LAMBDA a : ObstacleLoop(rng, count, w, h, depth, mods, layout, i + 1,
                                    a.draws, Append(obstacles, a.obstacle)))

\* generateObstacles(rng, density, w, h, {depth, mods, layout}), the meso
\* stream having made k draws
generateObstacles(rng, k, density, w, h, depth, mods, layout) ==
  ObstacleLoop(rng, CountFor(w, h, density), w, h, depth, mods, layout, 0, k, << >>)

\* actConfig.generation || {}
GenerationCfg(actConfig) ==
  IF actConfig.generation = Null
  THEN [enemyDensity |-> 0, eliteDensity |-> 0, obstacleDensity |-> 0,
        width |-> << >>, height |-> << >>]
  ELSE actConfig.generation

\* actConfig.enemies?.pool || ['grunt'] and actConfig.enemies?.elitePool || ['commander']
EnemyPool(actConfig) ==
  IF actConfig.enemies = Null \/ actConfig.enemies.pool = Null
  THEN << "grunt" >> ELSE actConfig.enemies.pool

ElitePool(actConfig) ==
  IF actConfig.enemies = Null \/ actConfig.enemies.elitePool = Null
  THEN << "commander" >> ELSE actConfig.enemies.elitePool

\* the stream seed that also mixes in how long the freshness history is
StreamSeedAmbient(options, stream, zoneSeed) ==
  Add32(IF options.seeds = Null THEN zoneSeed ELSE options.seeds[stream],
        U32(IF metaFreshness = Null THEN 0 ELSE Len(metaFreshness.recent)))

\* seeds.<stream> ?? zoneSeed
StreamSeed(options, stream, zoneSeed) ==
  IF options.seeds = Null THEN zoneSeed ELSE options.seeds[stream]

\* v *= num / den when the condition holds
scaleIf(cond, v, num, den) == IF cond THEN scale(v, num, den) ELSE v

\* the factor, in hundredths, the layout applies to a density
EnemyLayoutFactor(layout) ==
  CASE layout = "CORRIDOR" -> 105 [] layout = "CRAMPED" -> 110 [] OTHER -> 100

ObstacleLayoutFactor(layout) ==
  CASE layout = "CORRIDOR"  -> 85
    [] layout = "ARENA"     -> 90
    [] layout = "CLUTTERED" -> 155
    [] layout = "CRAMPED"   -> 160
    [] OTHER                -> 90

\* the densities of generate after the depth ramps, the modifiers and the
\* layout, before the hard caps
StackedDensities(cfg, depth, mods, layout) ==
  [enemy |->
     scaleIf(EnemyLayoutFactor(layout) # 100,
         scaleIf(Contains(mods, "FAST_ENEMIES"),
           scaleIf(Contains(mods, "BULLET_HELL"),
             scale(IF cfg.enemyDensity # 0 THEN cfg.enemyDensity ELSE 50000000,
                   1000 + Min(depth * 12, 1600), 1000),
             135, 100),
           110, 100),
         EnemyLayoutFactor(layout), 100),
   elite |->
     scaleIf(layout = "CRAMPED",
         scaleIf(Contains(mods, "ELITE_PACKS"),
           scale(IF cfg.eliteDensity # 0 THEN cfg.eliteDensity ELSE 8000000,
                 1000 + Min(depth * 10, 1200), 1000),
           155, 100),
         105, 100),
   obstacle |->
     scale(
         scaleIf(Contains(mods, "MINEFIELD"),
           scaleIf(Contains(mods, "DENSE_OBSTACLES"),
             scale(IF cfg.obstacleDensity # 0 THEN cfg.obstacleDensity ELSE 20000000,
                   1000 + Min(depth * 8, 1000), 1000),
             135, 100),
           115, 100),
         ObstacleLayoutFactor(layout), 100)]

\* the hard caps of the enemy, elite and obstacle densities, in units of 1e-11
EnemyCap == 120000000
EliteCap == 25000000
ObstacleCap == 80000000

\* densities whose elite cap is left out
DensitiesEliteUncapped(cfg, depth, mods, layout) ==
  Eval(StackedDensities(cfg, depth, mods, layout),
       LAMBDA d : [enemy |-> Min(EnemyCap, d.enemy), elite |-> d.elite,
                   obstacle |-> Min(ObstacleCap, d.obstacle)])

\* the densities of generate after the depth ramps, the modifiers, the
\* layout and the hard caps
Densities(cfg, depth, mods, layout) ==
  Eval(StackedDensities(cfg, depth, mods, layout),
       LAMBDA d : [enemy |-> Min(EnemyCap, d.enemy), elite |-> Min(EliteCap, d.elite),
                   obstacle |-> Min(ObstacleCap, d.obstacle)])

\* the factors, in hundredths, of the layout template on the width and the height
WidthFactor(layout) ==
  CASE layout = "CORRIDOR" -> 75 [] layout = "ARENA" -> 115
    [] layout = "CRAMPED" -> 78 [] OTHER -> 100

HeightFactor(layout) ==
  CASE layout = "CORRIDOR" -> 125 [] layout = "ARENA" -> 90
    [] layout = "CRAMPED" -> 78 [] OTHER -> 100

\* the zone dimension after the layout template and the CRAMPED_ZONE modifier
LayoutDim(v, mods, factor) ==
  IF Contains(mods, "CRAMPED_ZONE") THEN (((v * factor) \div 100) * 85) \div 100
  ELSE (v * factor) \div 100

\* options.layout || 'OPEN' and options.depth || 1
OptLayout(options) == IF options.layout = "" THEN "OPEN" ELSE options.layout
OptDepth(options) == IF options.depth = 0 THEN 1 ELSE options.depth

\* a generation whose enemies are placed after the obstacles, from a stream
\* that has made one draw for every obstacle
GeneratePlacedAfterObstacles(actConfig, zoneSeed, options, width, height, kh) ==
  Eval(<< Densities(GenerationCfg(actConfig), OptDepth(options), options.mods,
                    OptLayout(options)),
          generateSpawnPoint(StreamSeed(options, "meso", zoneSeed), kh, width, height) >>,
    LAMBDA a :
  Eval(<< generateExitPoint(StreamSeed(options, "meso", zoneSeed), kh + 2, a[2], width,
                            height),
          generateObstacles(StreamSeed(options, "meso", zoneSeed), kh + 3,
                            a[1].obstacle, width, height, OptDepth(options),
                            options.mods, OptLayout(options)) >>,
    LAMBDA eo :
  Eval(generateEnemySpawns(StreamSeed(options, "micro", zoneSeed), Len(eo[2]),
                           EnemyPool(actConfig), a[1].enemy, width, height, a[2], eo[1],
                           OptLayout(options)),
    LAMBDA enemies :
      [seed |-> zoneSeed, width |-> width, height |-> height,
       biome |-> IF actConfig.biome = "" THEN "space" ELSE actConfig.biome,
       isBossZone |-> FALSE,
       spawn |-> a[2], exit |-> eo[1],
       enemySpawns |-> enemies.spawns,
       eliteSpawns |-> generateEliteSpawns(StreamSeed(options, "micro", zoneSeed),
                                           enemies.draws, ElitePool(actConfig),
                                           a[1].elite, width, height).spawns,
       bossSpawn |-> Null,
       obstacles |-> eo[2],
       portals |-> << >>])))

\* generate once the dimensions are fixed: the meso stream has made kh draws
GeneratePlaced(actConfig, zoneSeed, options, width, height, kh) ==
  Eval(<< Densities(GenerationCfg(actConfig), OptDepth(options), options.mods,
                    OptLayout(options)),
          generateSpawnPoint(StreamSeed(options, "meso", zoneSeed), kh, width, height) >>,
    LAMBDA a :
  Eval(generateExitPoint(StreamSeed(options, "meso", zoneSeed), kh + 2, a[2], width,
                         height),
    LAMBDA exit :
  Eval(generateEnemySpawns(StreamSeed(options, "micro", zoneSeed), 0,
                           EnemyPool(actConfig), a[1].enemy, width, height, a[2], exit,
                           OptLayout(options)),
    LAMBDA enemies :
      [seed |-> zoneSeed, width |-> width, height |-> height,
       biome |-> IF actConfig.biome = "" THEN "space" ELSE actConfig.biome,
       isBossZone |-> FALSE,
       spawn |-> a[2], exit |-> exit,
       enemySpawns |-> enemies.spawns,
       eliteSpawns |-> generateEliteSpawns(StreamSeed(options, "micro", zoneSeed),
                                           enemies.draws, ElitePool(actConfig),
                                           a[1].elite, width, height).spawns,
       bossSpawn |-> Null,
       obstacles |-> generateObstacles(StreamSeed(options, "meso", zoneSeed), kh + 3,
                                       a[1].obstacle, width, height, OptDepth(options),
                                       options.mods, OptLayout(options)),
       portals |-> << >>])))

\* MapGenerator.generate(actConfig, zoneSeed, options)
generate(actConfig, zoneSeed, options) ==
  Eval(<< LayoutDim(pickRange(StreamSeed(options, "meso", zoneSeed), 1,
                              GenerationCfg(actConfig).width, 1500, 3000),
                    options.mods, WidthFactor(OptLayout(options))),
          LayoutDim(pickRange(StreamSeed(options, "meso", zoneSeed),
                              pickRangeDraws(GenerationCfg(actConfig).width) + 1,
                              GenerationCfg(actConfig).height, 1500, 3000),
                    options.mods, HeightFactor(OptLayout(options))) >>,
       LAMBDA d : GeneratePlaced(actConfig, zoneSeed, options, d[1], d[2],
                                 pickRangeDraws(GenerationCfg(actConfig).width)
                                 + pickRangeDraws(GenerationCfg(actConfig).height)))

\* 1000 * cos and 1000 * sin of the angle (i / n) * 2 * pi of pillar i of n, n in 2..4
PillarCos(i, n) ==
  CASE n = 2 -> << 1000, -1000 >>[i + 1]
    [] n = 3 -> << 1000, -500, -500 >>[i + 1]
    [] OTHER -> << 1000, 0, -1000, 0 >>[i + 1]

PillarSin(i, n) ==
  CASE n = 2 -> << 0, 0 >>[i + 1]
    [] n = 3 -> << 0, 866, -866 >>[i + 1]
    [] OTHER -> << 0, 1000, 0, -1000 >>[i + 1]

\* pillar i of n at the distance dist (in thousandths) from the centre
Pillar(i, n, dist, w, h) ==
  [x |-> (w * 500000 + PillarCos(i - 1, n) * dist) \div 1000000,
   y |-> (h * 500000 + PillarSin(i - 1, n) * dist) \div 1000000,
   type |-> "pillar", radius |-> 40, destructible |-> FALSE, hp |-> 0, damage |-> 0]

\* the pillars, their number drawn: pillar i is at rng.range(200, 350)
Pillars(rng, w, h, pillarCount) ==
  [i \in 1..pillarCount |->
     Pillar(i, pillarCount, 200000 + MulHi(rngNext(rng, i + 1), 150000), w, h)]

\* generateBossArenaObstacles(rng, w, h)
generateBossArenaObstacles(rng, w, h) == Pillars(rng, w, h, rngInt(rng, 1, 2, 4))

\* actConfig.boss || {}
BossCfg(actConfig) ==
  IF actConfig.boss = Null THEN [arenaWidth |-> 0, arenaHeight |-> 0, type |-> ""]
  ELSE actConfig.boss

\* MapGenerator.generateBossZone(actConfig, zoneSeed, options)
generateBossZone(actConfig, zoneSeed, options) ==
  LET rng    == StreamSeed(options, "meso", zoneSeed)
      cfg    == BossCfg(actConfig)
      width  == IF cfg.arenaWidth # 0 THEN cfg.arenaWidth ELSE 1200
      height == IF cfg.arenaHeight # 0 THEN cfg.arenaHeight ELSE 1000
  IN  [seed |-> zoneSeed, width |-> width, height |-> height,
       biome |-> actConfig.biome,
       isBossZone |-> TRUE,
       spawn |-> [x |-> width \div 2, y |-> height - 100],
       exit |-> Null,
       enemySpawns |-> << >>, eliteSpawns |-> << >>,
       bossSpawn |-> [x |-> width \div 2, y |-> 200,
                      type |-> IF cfg.type # "" THEN cfg.type ELSE "sentinel",
                      patrol |-> NullStr, patrolRadius |-> 0,
                      active |-> FALSE, killed |-> FALSE, enemyId |-> 0],
       obstacles |-> generateBossArenaObstacles(rng, width, height),
       portals |-> << >>]

Golden == << 40503, 31161 >>   \* 0x9E3779B9

\* a zone seed that two consecutive indices share
createZoneSeedPaired(actSeed, index) ==
  Xor32(actSeed, Imul(U32((index \div 2) + 1), Golden))

\* MapGenerator.createZoneSeed(actSeed, zoneIndex)
createZoneSeed(actSeed, index) == Xor32(actSeed, Imul(U32(index + 1), Golden))

(***************************************************************************)
(* SpawnGrid (src/unnamed/part_002).  A grid is [cellSize, cells], cells a *)
(* function from the keys in use to the list of the spawns' indices in     *)
(* their list, in insertion order.                                         *)
(***************************************************************************)
\* new SpawnGrid(cellSize): Math.max(64, cellSize | 0)
SpawnGridNew(cellSize) == [cellSize |-> Max(64, cellSize), cells |-> << >>]

\* _key(cx, cy) = (cx << 16) ^ (cy & 0xFFFF): a signed 32-bit word, the low 16
\* bits of cx above the low 16 bits of cy
GridKey(cx, cy) == (((cx + 32768) % 65536) - 32768) * 65536 + (cy % 65536)

\* _cellCoord(x, y)
cellCoord(grid, x, y) == [cx |-> x \div grid.cellSize, cy |-> y \div grid.cellSize]

\* insert(spawn), the spawn being number i of its list
GridInsert(grid, spawn, i) ==
  LET c == cellCoord(grid, spawn.x, spawn.y)
      k == GridKey(c.cx, c.cy)
  IN  IF k \in DOMAIN grid.cells
      THEN [grid EXCEPT !.cells[k] = Append(@, i)]
      ELSE [grid EXCEPT !.cells = [j \in DOMAIN grid.cells \cup {k} |->
                                     IF j = k THEN << i >> ELSE grid.cells[j]]]

RECURSIVE GridBuildFrom(_, _, _)
GridBuildFrom(grid, spawns, i) ==
  IF i > Len(spawns) THEN grid
  ELSE GridBuildFrom(GridInsert(grid, spawns[i], i), spawns, i + 1)

\* build(spawns)
GridBuild(grid, spawns) == GridBuildFrom([grid EXCEPT !.cells = << >>], spawns, 1)

RECURSIVE GridQueryFrom(_, _, _, _, _, _)
\* the two loops of query, from cell (cx, cy) on
GridQueryFrom(grid, cx, cy, c0, c1, out) ==
  IF cx > c1.cx THEN out
  ELSE IF cy > c1.cy THEN GridQueryFrom(grid, cx + 1, c0.cy, c0, c1, out)
  ELSE LET k == GridKey(cx, cy)
       IN  GridQueryFrom(grid, cx, cy + 1, c0, c1,
             IF k \in DOMAIN grid.cells THEN out \o grid.cells[k] ELSE out)

\* query that stops at the cell of the centre instead of the cell of
\* (x + r, y + r)
GridQueryNarrow(grid, x, y, r) ==
  LET c0 == cellCoord(grid, x - r, y - r)
      c1 == cellCoord(grid, x, y)
  IN  GridQueryFrom(grid, c0.cx, c0.cy, c0, c1, << >>)

\* query(x, y, r): the indices of the spawns in the cells the box overlaps
GridQuery(grid, x, y, r) ==
  LET c0 == cellCoord(grid, x - r, y - r)
      c1 == cellCoord(grid, x + r, y + r)
  IN  GridQueryFrom(grid, c0.cx, c0.cy, c0, c1, << >>)

(***************************************************************************)
(* World (src/unnamed/part_003): loading a zone                            *)
(***************************************************************************)
TagMACRO      == FromString(<< 77, 65, 67, 82, 79 >>)
TagMESO       == FromString(<< 77, 69, 83, 79 >>)
TagMICRO      == FromString(<< 77, 73, 67, 82, 79 >>)
TagMODS       == FromString(<< 77, 79, 68, 83 >>)
TagENCOUNTERS == FromString(<< 69, 78, 67, 79, 85, 78, 84, 69, 82, 83 >>)
TagLOOT       == FromString(<< 76, 79, 79, 84 >>)
TagUNLOCK     == FromString(<< 85, 78, 76, 79, 67, 75 >>)
TagACT        == FromString(<< 65, 67, 84 >>)
TagVersion0   == FromString(<< 48 >>)

spawnRadius == 600
despawnRadius == 1200

\* the layered seeds loadZone derives from the zone seed
ZoneSeeds(zoneSeed) ==
  [zone |-> zoneSeed,
   macro |-> seedFromParts(<< zoneSeed, TagMACRO >>),
   meso |-> seedFromParts(<< zoneSeed, TagMESO >>),
   micro |-> seedFromParts(<< zoneSeed, TagMICRO >>),
   mods |-> seedFromParts(<< zoneSeed, TagMODS >>),
   encounters |-> seedFromParts(<< zoneSeed, TagENCOUNTERS >>),
   loot |-> seedFromParts(<< zoneSeed, TagLOOT >>)]

\* the boss interval that is never below the default
BossIntervalFixed(actConfig) == IF actConfig.zones > 4 THEN actConfig.zones ELSE 4

\* the boss interval: act.zones when it is a number > 0, else 4 (0: not set)
BossInterval(actConfig) == IF actConfig.zones > 0 THEN actConfig.zones ELSE 4

Layouts ==
  << [id |-> "OPEN", weight |-> 10], [id |-> "CLUTTERED", weight |-> 9],
     [id |-> "CORRIDOR", weight |-> 7], [id |-> "ARENA", weight |-> 7],
     [id |-> "CRAMPED", weight |-> 5] >>

Backdrops ==
  << [id |-> "A", weight |-> 10], [id |-> "B", weight |-> 9],
     [id |-> "C", weight |-> 8], [id |-> "D", weight |-> 7] >>

\* the macro packs, layout-major; a weight is l.weight * b.weight, in hundredths
MacroPacks ==
  [n \in 1..(Len(Layouts) * Len(Backdrops)) |->
     LET l == Layouts[((n - 1) \div Len(Backdrops)) + 1]
         b == Backdrops[((n - 1) % Len(Backdrops)) + 1]
     IN  [layout |-> l.id, backdrop |-> b.id, weight |-> l.weight * b.weight]]

\* the freshness key `${biomeId}|${layout}|${backdrop}`
FreshnessKey(biomeId, layout, backdrop) == << biomeId, layout, backdrop >>

\* loadZone from the macro pick on: the modifiers and the pack are chosen
LoadZonePicked(act, index, zoneSeeds, md1, fr1, activeMods, pick) ==
  LET depth      == index + 1
      isBossZone == depth % BossInterval(act) = 0
      biomeId    == IF act.biome = "" THEN "space" ELSE act.biome
      layout     == MacroPacks[pick].layout
      backdrop   == MacroPacks[pick].backdrop
      options    == [depth |-> depth, mods |-> activeMods, seeds |-> zoneSeeds,
                     layout |-> layout, backdrop |-> backdrop]
      zone       == IF isBossZone THEN generateBossZone(act, zoneSeeds.zone, options)
                    ELSE generate(act, zoneSeeds.zone, options)
  IN  [metaDepth |-> md1,
       metaFreshness |-> FreshnessPush(fr1, FreshnessKey(biomeId, layout, backdrop)),
       zone |-> zone @@ [depth |-> depth, mods |-> activeMods, layout |-> layout,
                         backdrop |-> backdrop],
       rngEncounters |-> zoneSeeds.encounters]

\* loadZone from the modifier sampling on: the seeds are derived and the
\* milestone unlock and the depth record are done
LoadZoneSeeded(act, index, zoneSeeds, md1, fr, fCfg) ==
  LET depth      == index + 1
      activeMods == sampleActive(md1, depth, act, zoneSeeds.mods)
      fr1        == FreshnessEnsure(fr, fCfg.window)
      biomeId    == IF act.biome = "" THEN "space" ELSE act.biome
      keys       == [n \in 1..Len(MacroPacks) |->
                       FreshnessKey(biomeId, MacroPacks[n].layout, MacroPacks[n].backdrop)]
      pick       == FreshnessPick(rngNext(zoneSeeds.macro, 1), MacroPacks, keys, fr1,
                                  fCfg.penaltyBase)
  IN  Eval(<< fr1, activeMods, pick >>,
           LAMBDA a : LoadZonePicked(act, index, zoneSeeds, md1, a[1], a[2], a[3]))

\* World.loadZone(index) up to the generated zone: what it leaves in the
\* Depth/Modifier record, the Freshness record and World.currentZone, and the
\* seed of the encounter stream.  fCfg is State.data.config.freshness:
\* [window, penaltyBase]
loadZone(act, index, md, fr, fCfg) ==
  LET depth      == index + 1
      zoneSeed   == createZoneSeed(act.seed, index)
      unlockSeed == seedFromParts(<< act.seed, TagUNLOCK, U32(depth) >>)
      md1        == recordDepth(maybeUnlock(md, depth, act, unlockSeed).meta, depth)
  IN  Eval(<< ZoneSeeds(zoneSeed), md1 >>,
           LAMBDA a : LoadZoneSeeded(act, index, a[1], a[2], fr, fCfg))


(***************************************************************************)
(* World: the entities.  A spawn descriptor is named by its list and its   *)
(* index in it: << "enemy", i >>, << "elite", i >> or << "boss", 1 >>.     *)
(* enemyId is 0 while it has never been set and NoId once it is null.      *)
(***************************************************************************)
NoId == -1

\* the descriptor a reference names
Desc(zone, ref) ==
  CASE ref[1] = "enemy" -> zone.enemySpawns[ref[2]]
    [] ref[1] = "elite" -> zone.eliteSpawns[ref[2]]
    [] OTHER            -> zone.bossSpawn

\* the zone with the descriptor replaced
SetDesc(zone, ref, d) ==
  CASE ref[1] = "enemy" -> [zone EXCEPT !.enemySpawns[ref[2]] = d]
    [] ref[1] = "elite" -> [zone EXCEPT !.eliteSpawns[ref[2]] = d]
    [] OTHER            -> [zone EXCEPT !.bossSpawn = d]

\* the references of the descriptors of a zone
DescRefs(zone) ==
  { << "enemy", i >> : i \in 1..Len(zone.enemySpawns) }
  \cup { << "elite", i >> : i \in 1..Len(zone.eliteSpawns) }
  \cup (IF zone.bossSpawn = Null THEN {} ELSE { << "boss", 1 >> })

\* Enemies.spawn(type, x, y, isElite, isBoss): the entity factory hands out a
\* fresh id and a live entity at the position
EnemiesSpawn(id, type, x, y, isElite, isBoss) ==
  [id |-> id, type |-> type, x |-> x, y |-> y, isElite |-> isElite,
   isBoss |-> isBoss, dead |-> FALSE]

\* the patrol angle is kept in steps of a twentieth of a turn
AngleSteps == 20

\* 1000 * cos of step a of AngleSteps
Cos1000(a) ==
  << 1000, 951, 809, 588, 309, 0, -309, -588, -809, -951,
     -1000, -951, -809, -588, -309, 0, 309, 588, 809, 951 >>[(a % AngleSteps) + 1]

\* 1000 * sin of step a
Sin1000(a) == Cos1000(a + 15)

\* World.spawnEnemy(spawn, isElite) on the world w = [zone, activeEnemies,
\* stateEnemies, rngEncounters, nextEnemyId]
spawnEnemy(w, ref, isElite) ==
  LET spawn == Desc(w.zone, ref)
      rng   == Step(w.rngEncounters)
      enemy == EnemiesSpawn(w.nextEnemyId, spawn.type, spawn.x, spawn.y, isElite, FALSE)
               @@ [spawnRef |-> ref, level |-> w.zone.depth,
                   patrol |-> spawn.patrol, patrolRadius |-> spawn.patrolRadius,
                   patrolOrigin |-> [x |-> spawn.x, y |-> spawn.y],
                   patrolAngle |-> MulHi(Output(rng), AngleSteps)]
  IN  [w EXCEPT !.zone = SetDesc(w.zone, ref,
                           [spawn EXCEPT !.active = TRUE, !.enemyId = enemy.id]),
                !.rngEncounters = rng,
                !.nextEnemyId = @ + 1,
                !.stateEnemies = Append(@, enemy.id),
                !.activeEnemies = Append(@, enemy)]

\* World.spawnBoss(spawn)
spawnBoss(w, ref) ==
  LET spawn == Desc(w.zone, ref)
      enemy == EnemiesSpawn(w.nextEnemyId, spawn.type, spawn.x, spawn.y, FALSE, TRUE)
               @@ [spawnRef |-> ref, level |-> w.zone.depth,
                   patrol |-> NullStr, patrolRadius |-> 0,
                   patrolOrigin |-> [x |-> spawn.x, y |-> spawn.y],
                   patrolAngle |-> 0]
  IN  [w EXCEPT !.zone = SetDesc(w.zone, ref,
                           [spawn EXCEPT !.active = TRUE, !.enemyId = enemy.id]),
                !.nextEnemyId = @ + 1,
                !.stateEnemies = Append(@, enemy.id),
                !.activeEnemies = Append(@, enemy)]

\* despawnEnemy that leaves the entity in activeEnemies
despawnEnemyKept(w, ref) ==
  [w EXCEPT !.stateEnemies = SelectSeq(@, LAMBDA id : id # Desc(w.zone, ref).enemyId),
            !.zone = SetDesc(w.zone, ref,
                       [Desc(w.zone, ref) EXCEPT !.active = FALSE, !.enemyId = NoId])]

\* World.despawnEnemy(spawn)
despawnEnemy(w, ref) ==
  LET spawn == Desc(w.zone, ref)
  IN  [w EXCEPT !.stateEnemies = SelectSeq(@, LAMBDA id : id # spawn.enemyId),
                !.zone = SetDesc(w.zone, ref,
                           [spawn EXCEPT !.active = FALSE, !.enemyId = NoId]),
                !.activeEnemies = SelectSeq(@, LAMBDA e : e.spawnRef # ref)]

\* World.onBossKilled(): the portal to the hub at the centre of the zone
onBossKilled(zone) ==
  [zone EXCEPT !.portals = Append(@, [x |-> zone.width \div 2, y |-> zone.height \div 2,
                                       destination |-> "hub", type |-> "victory"])]

\* World.onEnemyKilled(enemy) on the zone
onEnemyKilled(zone, enemy) ==
  LET spawn == Desc(zone, enemy.spawnRef)
      z1 == SetDesc(zone, enemy.spawnRef, [spawn EXCEPT !.killed = TRUE, !.active = FALSE])
  IN  IF enemy.isBoss /\ z1.bossSpawn # Null THEN onBossKilled(z1) ELSE z1

\* one entity after World.updateEnemyPatrols(dt), dt in units of pi seconds:
\* dt * 0.5 is 5 * dt steps and dt * 0.8 is 8 * dt steps
PatrolStep(enemy, dt) ==
  IF enemy.patrol = NullStr \/ enemy.dead THEN enemy
  ELSE CASE enemy.patrol = "circle" ->
              LET a == (enemy.patrolAngle + 5 * dt) % AngleSteps
              IN  [enemy EXCEPT
                     !.patrolAngle = a,
                     !.x = (enemy.patrolOrigin.x * 1000 + Cos1000(a) * enemy.patrolRadius)
                           \div 1000,
                     !.y = (enemy.patrolOrigin.y * 1000 + Sin1000(a) * enemy.patrolRadius)
                           \div 1000]
         [] enemy.patrol = "line" ->
              LET a == (enemy.patrolAngle + 8 * dt) % AngleSteps
              IN  [enemy EXCEPT
                     !.patrolAngle = a,
                     !.x = (enemy.patrolOrigin.x * 1000 + Sin1000(a) * enemy.patrolRadius)
                           \div 1000]
         [] OTHER -> enemy

\* World.updateEnemyPatrols(dt)
updateEnemyPatrols(enemies, dt) ==
  [i \in 1..Len(enemies) |-> PatrolStep(enemies[i], dt)]

(***************************************************************************)
(* World.update(dt), loop by loop, on the world w                          *)
(***************************************************************************)
\* the test with the radius halved
ShouldSpawnHalved(spawn, p) ==
  /\ ~spawn.killed
  /\ ~spawn.active
  /\ 4 * Dist2(p.x, p.y, spawn.x, spawn.y) < spawnRadius * spawnRadius

\* the test without its killed check
ShouldSpawnKilled(spawn, p) ==
  /\ ~spawn.active
  /\ Dist2(p.x, p.y, spawn.x, spawn.y) < spawnRadius * spawnRadius

\* the test of the enemy loop and of the elite loop on one candidate: it is
\* not killed, not active, and the player is close
ShouldSpawn(spawn, p) ==
  /\ ~spawn.killed
  /\ ~spawn.active
  /\ Dist2(p.x, p.y, spawn.x, spawn.y) < spawnRadius * spawnRadius

RECURSIVE SpawnLoop(_, _, _, _, _, _)
\* the enemy loop and the elite loop of update over the grid's candidates
SpawnLoop(w, p, kind, candidates, i, isElite) ==
  IF i > Len(candidates) THEN w
  ELSE Eval(IF ShouldSpawn(Desc(w.zone, << kind, candidates[i] >>), p)
            THEN spawnEnemy(w, << kind, candidates[i] >>, isElite) ELSE w,
            LAMBDA wn : SpawnLoop(wn, p, kind, candidates, i + 1, isElite))

RECURSIVE DespawnLoop(_, _, _, _)
\* the despawn pass of update over the copy of activeEnemies
DespawnLoop(w, p, enemies, i) ==
  IF i > Len(enemies) THEN w
  ELSE LET enemy == enemies[i]
       IN  Eval(IF ~enemy.dead /\ Desc(w.zone, enemy.spawnRef).active
                   /\ Dist2(p.x, p.y, enemy.x, enemy.y) > despawnRadius * despawnRadius
                THEN despawnEnemy(w, enemy.spawnRef) ELSE w,
                LAMBDA wn : DespawnLoop(wn, p, enemies, i + 1))

\* the boss check of update: 1.5 * spawnRadius is (3 * spawnRadius) / 2
BossCheck(w, p) ==
  LET spawn == w.zone.bossSpawn
  IN  IF spawn # Null /\ ~spawn.killed /\ ~spawn.active
         /\ 4 * Dist2(p.x, p.y, spawn.x, spawn.y) < 9 * spawnRadius * spawnRadius
      THEN spawnBoss(w, << "boss", 1 >>) ELSE w

\* update up to the exit check: the spawns and despawns of one call
UpdateSpawns(w, p, eGrid, lGrid) ==
  LET w1 == SpawnLoop(w, p, "enemy", GridQuery(eGrid, p.x, p.y, spawnRadius), 1, FALSE)
      W2(a) == DespawnLoop(a, p, a.activeEnemies, 1)
      W3(a) == SpawnLoop(a, p, "elite", GridQuery(lGrid, p.x, p.y, spawnRadius), 1, TRUE)
      W4(a) == BossCheck(a, p)
  IN  Eval(Eval(Eval(w1, W2), W3), W4)

\* an exit check without the distance test
ExitReachedAnywhere(zone, p) == zone.exit # Null

\* whether update's exit check fires
ExitReached(zone, p) ==
  zone.exit # Null /\ Dist2(p.x, p.y, zone.exit.x, zone.exit.y) < 50 * 50

\* whether update's portal check fires for some portal of the zone
PortalReached(zone, p) ==
  \E i \in 1..Len(zone.portals) :
     Dist2(p.x, p.y, zone.portals[i].x, zone.portals[i].y) < 60 * 60

(***************************************************************************)
(* The data the program runs on: State.data.acts and State.data.config.    *)
(***************************************************************************)
ActsData ==
  [act1 |-> [biome |-> "space", zones |-> 2,
             generation |-> [enemyDensity |-> 60000, eliteDensity |-> 30000,
                             obstacleDensity |-> 30000,
                             width |-> << 1800 >>, height |-> << 1800 >>],
             enemies |-> Null,
             boss |-> [arenaWidth |-> 3000, arenaHeight |-> 0, type |-> ""],
             modifiers |-> Null],
   act2 |-> [biome |-> "", zones |-> 0,
             generation |-> [enemyDensity |-> 30000, eliteDensity |-> 0 + 15000,
                             obstacleDensity |-> 20000,
                             width |-> << >>, height |-> << >>],
             enemies |-> [pool |-> << "grunt", "scout" >>, elitePool |-> Null],
             boss |-> Null,
             modifiers |-> Null]]

\* the act ids as strings of character codes, for partToU32
ActIdCodes ==
  [act1 |-> << 97, 99, 116, 49 >>, act2 |-> << 97, 99, 116, 50 >>,
   act9 |-> << 97, 99, 116, 57 >>]

\* the act ids init is called with; act9 is not in State.data.acts
ActIds == { "act1", "act2", "act9" }

\* the seeds init is called with: << >> is "no seed given"
InitSeeds == { << >>, << 42 >> }

\* State.data.config.freshness (absent: the defaults apply)
FreshnessCfg == [window |-> << >>, penaltyBase |-> Null]

(***************************************************************************)
(* Bounds of the exploration                                               *)
(***************************************************************************)
\* the highest zone index loaded
MaxZoneIndex == 3
\* the number of zones loaded in one behaviour of the dev hotkeys
MaxLoads == 4
\* the number of zones loaded in one behaviour of the game
MaxWorldLoads == 2
\* the number of entities the factory hands out in one behaviour
MaxEnemyId == 2
\* the number of victory portals in one zone
MaxPortals == 2

\* the frame times update is called with, in units of pi seconds
Dts == { 1 }

(***************************************************************************)
(* The state machine of World                                              *)
(***************************************************************************)
vars == << currentAct, currentZone, zoneIndex, activeEnemies, enemyGrid, eliteGrid,
           rngEncounters, stateEnemies, metaDepth, metaFreshness, player, scene,
           nextEnemyId, lastOp, zoneLog, unlockLog, pickLog, genRun, probe >>

\* the fields of lastOp: the handler, whether it did its work, whether update
\* reached the exit or a portal, and the descriptor a kill notification named
Op(op) ==
  [op |-> op, ok |-> TRUE, exit |-> FALSE, portal |-> FALSE, ref |-> << >>]

\* what the zone log keeps of a zone loadZone produced
ZoneEntry(act, index, zone) ==
  [act |-> act.id, seed |-> act.seed, index |-> index,
   layout |-> zone.layout, backdrop |-> zone.backdrop, mods |-> zone.mods,
   width |-> zone.width, height |-> zone.height, spawn |-> zone.spawn,
   exit |-> zone.exit, enemySpawns |-> zone.enemySpawns,
   eliteSpawns |-> zone.eliteSpawns, bossSpawn |-> zone.bossSpawn,
   obstacles |-> zone.obstacles]

\* World.loadZone(index) for the act: everything it assigns
LoadZoneStep(act, index) ==
  \E r \in { loadZone(act, index, metaDepth, metaFreshness, FreshnessCfg) } :
    /\ currentZone' = r.zone
    /\ rngEncounters' = r.rngEncounters
    /\ metaDepth' = r.metaDepth
    /\ metaFreshness' = r.metaFreshness
    /\ enemyGrid' = GridBuild(SpawnGridNew(Max(200, spawnRadius)), r.zone.enemySpawns)
    /\ eliteGrid' = GridBuild(SpawnGridNew(Max(200, spawnRadius)), r.zone.eliteSpawns)
    /\ zoneIndex' = index
    /\ activeEnemies' = << >>
    /\ player' = [x |-> r.zone.spawn.x, y |-> r.zone.spawn.y]
    /\ zoneLog' = Append(zoneLog, ZoneEntry(act, index, r.zone))

\* the act seed init uses: the seed given, else the seed derived from the
\* world seed (0), 'ACT', the act id, the run index (0) and the version ('0')
ActSeed(actId, seed) ==
  IF seed # << >> THEN U32(seed[1])
  ELSE seedFromParts(<< U32(0), TagACT, FromString(ActIdCodes[actId]), U32(0),
                        TagVersion0 >>)

\* an init that drops the act and the zone before it looks the act up
InitMissingReset ==
  /\ lastOp' = [Op("init") EXCEPT !.ok = FALSE]
  /\ currentAct' = Null
  /\ currentZone' = Null
  /\ UNCHANGED << zoneIndex, activeEnemies, enemyGrid, eliteGrid, rngEncounters,
                  stateEnemies, metaDepth, metaFreshness, player, scene, nextEnemyId,
                  zoneLog, unlockLog, pickLog, genRun, probe >>

\* World.init when State.data.acts has no entry for the act id: the error is
\* logged and false returned
InitMissing ==
  /\ lastOp' = [Op("init") EXCEPT !.ok = FALSE]
  /\ UNCHANGED << currentAct, currentZone, zoneIndex, activeEnemies, enemyGrid,
                  eliteGrid, rngEncounters, stateEnemies, metaDepth,
                  metaFreshness, player, scene, nextEnemyId, zoneLog,
                  unlockLog, pickLog, genRun, probe >>

\* World.init(actId, seed)
WorldInit(actId, seed) ==
  IF actId \notin DOMAIN ActsData
  THEN InitMissing
  ELSE /\ Len(zoneLog) < MaxLoads
       /\ \E act \in { ActsData[actId] @@ [id |-> actId, seed |-> ActSeed(actId, seed)] } :
            /\ currentAct' = act
            /\ LoadZoneStep(act, 0)
       /\ lastOp' = Op("init")
       /\ UNCHANGED << stateEnemies, scene, nextEnemyId, unlockLog, pickLog, genRun, probe >>

\* the keys of the dev hotkeys that load a zone
DevKeys == { "KeyN", "KeyP" }

\* Input.onKeyDown(e) for a dev hotkey: SHIFT+N loads the next zone, SHIFT+P
\* the previous one (clamped); loadZone throws, and is caught, before init
OnKeyDown(code) ==
  /\ currentAct # Null
  /\ (code = "KeyN") => zoneIndex < MaxZoneIndex
  /\ Len(zoneLog) < MaxLoads
  /\ LoadZoneStep(currentAct,
                  IF code = "KeyN" THEN zoneIndex + 1 ELSE Max(0, zoneIndex - 1))
  /\ lastOp' = Op(code)
  /\ UNCHANGED << currentAct, stateEnemies, scene, nextEnemyId, unlockLog, pickLog,
                  genRun, probe >>

\* the offsets the player is put at from a descriptor: on it and at exactly
\* spawnRadius from an enemy or an elite, between spawnRadius and
\* 1.5 * spawnRadius and at exactly 1.5 * spawnRadius from a boss
Offsets(kind) ==
  IF kind = "boss" THEN { << 420, 560 >>, << 540, 720 >> }
  ELSE { << 0, 0 >>, << 360, 480 >> }

\* the point at an offset from a descriptor, towards the middle of the zone
OffsetPoint(zone, d, o) ==
  [x |-> IF 2 * d.x < zone.width THEN d.x + o[1] ELSE d.x - o[1],
   y |-> IF 2 * d.y < zone.height THEN d.y + o[2] ELSE d.y - o[2]]

\* the positions the player is moved to: the offsets from the descriptors, the
\* exit, the portals and two opposite corners of the zone
PlayerPoints(zone) ==
  { p \in { OffsetPoint(zone, Desc(zone, ref), o) :
              ref \in DescRefs(zone), o \in Offsets("enemy") \cup Offsets("boss") } :
      /\ \E ref \in DescRefs(zone) : \E o \in Offsets(ref[1]) :
            p = OffsetPoint(zone, Desc(zone, ref), o)
      /\ p.x >= 0 /\ p.x <= zone.width /\ p.y >= 0 /\ p.y <= zone.height }
  \cup (IF zone.exit = Null THEN {} ELSE { [x |-> zone.exit.x, y |-> zone.exit.y] })
  \cup { [x |-> zone.portals[i].x, y |-> zone.portals[i].y] : i \in 1..Len(zone.portals) }
  \cup { [x |-> 0, y |-> 0], [x |-> zone.width, y |-> zone.height] }

\* the player moves (State.player is written between two updates)
MovePlayer ==
  /\ currentZone # Null
  /\ \E p \in PlayerPoints(currentZone) :
       /\ p # player
       /\ player' = p
  /\ lastOp' = Op("move")
  /\ UNCHANGED << currentAct, currentZone, zoneIndex, activeEnemies, enemyGrid,
                  eliteGrid, rngEncounters, stateEnemies, metaDepth, metaFreshness,
                  scene, nextEnemyId, zoneLog, unlockLog, pickLog, genRun, probe >>

\* the world update works on
World ==
  [zone |-> currentZone, activeEnemies |-> activeEnemies, stateEnemies |-> stateEnemies,
   rngEncounters |-> rngEncounters, nextEnemyId |-> nextEnemyId]

\* World.update(dt), explored while at most maxLoads zones have been loaded
\* and the factory has handed out at most maxIds entities
UpdateUpTo(dt, maxLoads, maxIds) ==
  /\ currentZone # Null
  /\ \E w \in { UpdateSpawns(World, player, enemyGrid, eliteGrid) } :
       /\ w.nextEnemyId <= maxIds + 1
       /\ stateEnemies' = w.stateEnemies
       /\ nextEnemyId' = w.nextEnemyId
       /\ lastOp' = [Op("update") EXCEPT
                       !.exit = ExitReached(w.zone, player),
                       !.portal = ~ExitReached(w.zone, player)
                                  /\ PortalReached(w.zone, player)]
       /\ IF ExitReached(w.zone, player)
          THEN \* onExitReached: the next zone is loaded; it has no portal and
               \* no active enemy for the rest of update to act on
               /\ zoneIndex < MaxZoneIndex
               /\ Len(zoneLog) < maxLoads
               /\ LoadZoneStep(currentAct, zoneIndex + 1)
               /\ UNCHANGED scene
          ELSE /\ currentZone' = w.zone
               /\ rngEncounters' = w.rngEncounters
               /\ activeEnemies' = updateEnemyPatrols(w.activeEnemies, dt)
               /\ scene' = IF PortalReached(w.zone, player) THEN "hub" ELSE scene
               /\ UNCHANGED << zoneIndex, enemyGrid, eliteGrid, metaDepth,
                               metaFreshness, player, zoneLog >>
  /\ UNCHANGED << currentAct, unlockLog, pickLog, genRun, probe >>

\* World.update(dt) in the game
Update(dt) == UpdateUpTo(dt, MaxWorldLoads, MaxEnemyId)

\* an entity of the zone is destroyed: it is marked dead and World is
\* notified; a notification may come again for an entity already dead
Kill(i) ==
  /\ currentZone # Null
  /\ i \in 1..Len(activeEnemies)
  /\ Len(onEnemyKilled(currentZone, activeEnemies[i]).portals) <= MaxPortals
  /\ currentZone' = onEnemyKilled(currentZone, activeEnemies[i])
  /\ activeEnemies' = [activeEnemies EXCEPT ![i].dead = TRUE]
  /\ lastOp' = [Op("kill") EXCEPT !.ref = activeEnemies[i].spawnRef]
  /\ UNCHANGED << currentAct, zoneIndex, enemyGrid, eliteGrid, rngEncounters,
                  stateEnemies, metaDepth, metaFreshness, player, scene, nextEnemyId,
                  zoneLog, unlockLog, pickLog, genRun, probe >>

\* the state before World.init: nothing is loaded and the profile is new
Init ==
  /\ currentAct = Null
  /\ currentZone = Null
  /\ zoneIndex = 0
  /\ activeEnemies = << >>
  /\ enemyGrid = Null
  /\ eliteGrid = Null
  /\ rngEncounters = U32(0)
  /\ stateEnemies = << >>
  /\ metaDepth = Null
  /\ metaFreshness = Null
  /\ player = [x |-> 0, y |-> 0]
  /\ scene = "game"
  /\ nextEnemyId = 1
  /\ lastOp = Op("none")
  /\ zoneLog = << >>
  /\ unlockLog = << >>
  /\ pickLog = << >>
  /\ genRun = Null
  /\ probe = Null

\* the game without the dev hotkeys: the world is set up once
Next ==
  \/ /\ currentZone = Null
     /\ \E actId \in ActIds, seed \in InitSeeds : WorldInit(actId, seed)
  \/ MovePlayer
  \/ \E dt \in Dts : Update(dt)
  \/ \E i \in 1..MaxEnemyId : Kill(i)

Spec == Init /\ [][Next]_vars

\* the dev hotkeys alone, on a world that init has set up
NextLoad ==
  \/ \E actId \in ActIds, seed \in InitSeeds : WorldInit(actId, seed)
  \/ \E code \in DevKeys : OnKeyDown(code)

SpecLoad == Init /\ [][NextLoad]_vars

(***************************************************************************)
(* MapGenerator.generate called again with the same arguments (SpecGen)    *)
(***************************************************************************)
\* the number of calls of generate with one set of arguments
MaxGenCalls == 2
\* the length the freshness history grows to between the calls
MaxAmbient == 2

\* the arguments of generate: the act, the zone seed and the options
GenInputs ==
  [act      : { ActsData[id] @@ [id |-> id, seed |-> U32(42)] : id \in DOMAIN ActsData },
   zoneSeed : { U32(42), << 40503, 31153 >> },
   depth    : { 0, 2, 30 },
   mods     : { << >>, << "ELITE_PACKS" >>, << "CRAMPED_ZONE", "DENSE_OBSTACLES" >> },
   layout   : { "", "CORRIDOR", "CRAMPED" },
   backdrop : { "", "B" },
   seeds    : { Null, ZoneSeeds(U32(7)) }]

\* what a call of generate returned, with the state outside it at the call
GenOut(zone) ==
  [width |-> zone.width, height |-> zone.height, spawn |-> zone.spawn,
   exit |-> zone.exit, enemySpawns |-> zone.enemySpawns,
   eliteSpawns |-> zone.eliteSpawns, obstacles |-> zone.obstacles,
   ambient |-> << metaFreshness, metaDepth >>]

\* MapGenerator.generate(actConfig, zoneSeed, options): the first call fixes
\* the arguments, the next calls repeat them
Generate ==
  /\ (IF genRun = Null THEN 0 ELSE Len(genRun.calls)) < MaxGenCalls
  /\ \E in \in (IF genRun = Null THEN GenInputs ELSE { genRun.input }) :
       genRun' = [input |-> in,
                  calls |-> Append(IF genRun = Null THEN << >> ELSE genRun.calls,
                             GenOut(generate(in.act, in.zoneSeed,
                                      [depth |-> in.depth, mods |-> in.mods,
                                       layout |-> in.layout, backdrop |-> in.backdrop,
                                       seeds |-> in.seeds])))]
  /\ lastOp' = Op("generate")
  /\ UNCHANGED << currentAct, currentZone, zoneIndex, activeEnemies, enemyGrid,
                  eliteGrid, rngEncounters, stateEnemies, metaDepth, metaFreshness,
                  player, scene, nextEnemyId, zoneLog, unlockLog, pickLog, probe >>

\* the state outside generate changes between two calls: the profile records
\* a depth and a key of the freshness history
Ambient ==
  /\ genRun # Null
  /\ FreshnessCount(metaFreshness, "seen") < MaxAmbient
  /\ metaFreshness' = FreshnessPush(metaFreshness, "seen")
  /\ metaDepth' = recordDepth(metaDepth, genRun.input.depth + Len(genRun.calls))
  /\ lastOp' = Op("ambient")
  /\ UNCHANGED << currentAct, currentZone, zoneIndex, activeEnemies, enemyGrid,
                  eliteGrid, rngEncounters, stateEnemies, player, scene, nextEnemyId,
                  zoneLog, unlockLog, pickLog, genRun, probe >>

NextGen == Generate \/ Ambient

SpecGen == Init /\ [][NextGen]_vars

\* a call's result without the state outside it
Generated(call) == [f \in DOMAIN call \ { "ambient" } |-> call[f]]

MaxUnlockCalls == 3

\* the depths maybeUnlock is called with: around the milestones
UnlockDepths == { 1, 24, 25, 26, 49, 50, 75 }

\* the act configurations: the default pool, and a pool of two modifiers
UnlockActs ==
  { [modifiers |-> Null],
    [modifiers |-> [pool |-> << [id |-> "MINEFIELD", weight |-> 10],
                                [id |-> "RICH_LOOT", weight |-> 6] >>,
                    baseline |-> Null]] }

\* the seeds of the rng maybeUnlock draws from
UnlockSeeds == { U32(1), << 40503, 31153 >> }

\* DepthRules.maybeUnlock(depth, actConfig, rng) on the profile
MaybeUnlock(depth, actConfig, rng) ==
  /\ Len(unlockLog) < MaxUnlockCalls
  /\ \E r \in { maybeUnlock(metaDepth, depth, actConfig, rng) } :
       /\ metaDepth' = r.meta
       /\ unlockLog' = Append(unlockLog,
                         [depth |-> depth, act |-> actConfig,
                          before |-> ensureMeta(metaDepth),
                          after |-> r.meta, result |-> r.result])
  /\ lastOp' = Op("maybeUnlock")
  /\ UNCHANGED << currentAct, currentZone, zoneIndex, activeEnemies, enemyGrid,
                  eliteGrid, rngEncounters, stateEnemies, metaFreshness, player,
                  scene, nextEnemyId, zoneLog, pickLog, genRun, probe >>

NextDepth ==
  \E depth \in UnlockDepths, actConfig \in UnlockActs, rng \in UnlockSeeds :
     MaybeUnlock(depth, actConfig, rng)

SpecDepth == Init /\ [][NextDepth]_vars

\* the milestone boundary of a depth
Milestone(depth) == (depth \div 25) * 25

\* whether a call appended a modifier to the unlocked list
Appended(call) == call.after.unlocked # call.before.unlocked

\* C9: a call appends at most one modifier; for each milestone at most one
\* call appends; a later call with the same milestone returns null and leaves
\* the record as it was; a call below depth 25 appends nothing
C9_UnlockOncePerMilestone ==
  \A i \in 1..Len(unlockLog) :
     /\ \/ unlockLog[i].after.unlocked = unlockLog[i].before.unlocked
        \/ /\ Len(unlockLog[i].after.unlocked) = Len(unlockLog[i].before.unlocked) + 1
           /\ SubSeq(unlockLog[i].after.unlocked, 1, Len(unlockLog[i].before.unlocked))
                = unlockLog[i].before.unlocked
     /\ unlockLog[i].depth < 25 =>
          /\ ~Appended(unlockLog[i])
          /\ unlockLog[i].result = NullStr
     /\ \A j \in 1..Len(unlockLog) :
          (i < j /\ Milestone(unlockLog[i].depth) = Milestone(unlockLog[j].depth)) =>
            /\ unlockLog[j].result = NullStr
            /\ unlockLog[j].after = unlockLog[j].before
            /\ ~(Appended(unlockLog[i]) /\ Appended(unlockLog[j]))

\* a call unlocked a modifier at a milestone and the next call, at another
\* depth of the same milestone, returned null
C9_Witness ==
  /\ Len(unlockLog) >= 2
  /\ Appended(unlockLog[1])
  /\ unlockLog[1].result # NullStr
  /\ unlockLog[2].depth # unlockLog[1].depth
  /\ Milestone(unlockLog[2].depth) = Milestone(unlockLog[1].depth)
  /\ unlockLog[2].result = NullStr

(***************************************************************************)
(* Freshness.pick and push, draw after draw (SpecFresh)                    *)
(***************************************************************************)
\* the number of draws in one behaviour
MaxPicks == 4

\* the options of the draws, weights in hundredths: one of them has no weight
FreshOptions ==
  << [id |-> "z", weight |-> 0], [id |-> "a", weight |-> 100],
     [id |-> "b", weight |-> 50] >>

\* config.freshness of the behaviours: the window and the penalty base
FreshWindows == { << 1 >>, << 2 >> }
FreshPenalties == { Null, [num |-> 1, den |-> 2] }

\* the words the rng returns: the lowest, the middle and the highest
FreshWords == { U32(0), << 32768, 0 >>, << 65535, 65535 >> }

\* one draw as loadZone makes it: ensure with the configuration, pick among
\* the options by their ids, push the key picked
FreshDraw(cfgWindow, penaltyBase, u) ==
  /\ Len(pickLog) < MaxPicks
  /\ \E f \in { FreshnessEnsure(metaFreshness, cfgWindow) } :
     \E keys \in { [i \in 1..Len(FreshOptions) |-> FreshOptions[i].id] } :
       /\ metaFreshness' =
            FreshnessPush(f, keys[FreshnessPick(u, FreshOptions, keys, f, penaltyBase)])
       /\ pickLog' = Append(pickLog,
            [window |-> f.window, recent |-> f.recent, penaltyBase |-> penaltyBase,
             cfgWindow |-> cfgWindow,
             den |-> PenaltyBase(penaltyBase).den, scale |-> Len(f.recent),
             rows |-> PenalisedRows(FreshOptions, keys, f, penaltyBase),
             chosen |-> FreshnessPick(u, FreshOptions, keys, f, penaltyBase)])
  /\ lastOp' = Op("pick")
  /\ UNCHANGED << currentAct, currentZone, zoneIndex, activeEnemies, enemyGrid,
                  eliteGrid, rngEncounters, stateEnemies, metaDepth, player, scene,
                  nextEnemyId, zoneLog, unlockLog, genRun, probe >>

\* the configuration is chosen with the first draw and stays
NextFresh ==
  \E u \in FreshWords :
     \E cfgWindow \in (IF pickLog = << >> THEN FreshWindows
                       ELSE { pickLog[1].cfgWindow }) :
     \E penaltyBase \in (IF pickLog = << >> THEN FreshPenalties
                         ELSE { pickLog[1].penaltyBase }) :
        FreshDraw(cfgWindow, penaltyBase, u)

SpecFresh == Init /\ [][NextFresh]_vars

\* the penalised weight of option k at a draw, and the sum over the options
WeightAt(draw, k) == draw.rows[k].weight
TotalAt(draw) == SumWeights(draw.rows, Len(draw.rows))

\* whether the claim speaks of the option chosen at a draw: it has a positive
\* base weight and so has another option
Competes(draw) ==
  /\ FreshOptions[draw.chosen].weight > 0
  /\ \E k \in 1..Len(FreshOptions) : k # draw.chosen /\ FreshOptions[k].weight > 0

\* whether pushing the key chosen at a draw drops an occurrence of the same
\* key from the full history
Evicts(draw) ==
  /\ Len(draw.recent) = draw.window
  /\ draw.recent[1] = FreshOptions[draw.chosen].id

\* the weight of the option chosen at draw a is smaller at the next draw b
\* (the units are 1 / den^scale), and so is its share of the sum
Suppressed(a, b) ==
  /\ WeightAt(b, a.chosen) * Pow(a.den, a.scale)
       < WeightAt(a, a.chosen) * Pow(b.den, b.scale)
  /\ WeightAt(b, a.chosen) * TotalAt(a) < WeightAt(a, a.chosen) * TotalAt(b)

\* the weight and the share are the same at both draws
Unchanged(a, b) ==
  /\ WeightAt(b, a.chosen) * Pow(a.den, a.scale)
       = WeightAt(a, a.chosen) * Pow(b.den, b.scale)
  /\ WeightAt(b, a.chosen) * TotalAt(a) = WeightAt(a, a.chosen) * TotalAt(b)

\* C10 as stated: whenever an option that competes is chosen and pushed, its
\* penalised weight and its probability are strictly smaller at the next draw
C10_AlwaysSuppressed ==
  \A i \in 1..(Len(pickLog) - 1) :
     Competes(pickLog[i]) => Suppressed(pickLog[i], pickLog[i + 1])

\* C10: an option that competes and is chosen and pushed has a strictly
\* smaller penalised weight and probability at the next draw, provided the
\* push drops no occurrence of its key from the full history; when it drops
\* one, weight and probability stay as they were
C10_SuppressedUntilEvicted ==
  \A i \in 1..(Len(pickLog) - 1) :
     Competes(pickLog[i]) =>
       IF Evicts(pickLog[i]) THEN Unchanged(pickLog[i], pickLog[i + 1])
       ELSE Suppressed(pickLog[i], pickLog[i + 1])

\* the same option that competes was chosen at two draws in a row, the first
\* push dropping nothing of its key, and a third draw followed
C10_Witness ==
  /\ Len(pickLog) >= 3
  /\ Competes(pickLog[1])
  /\ pickLog[2].chosen = pickLog[1].chosen
  /\ ~Evicts(pickLog[1])
  /\ Suppressed(pickLog[1], pickLog[2])

(***************************************************************************)
(* Proximity spawning and the descriptor lifecycle (Spec)                  *)
(***************************************************************************)
\* the enemy and elite descriptors of a zone
EnemyRefs(zone) == { ref \in DescRefs(zone) : ref[1] # "boss" }

\* whether the point p is closer than r to the position of d
Within(p, d, r) == Dist2(p.x, p.y, d.x, d.y) < r * r

\* the ids of the entities of a list that are tied to a descriptor
IdsOf(enemies, ref) ==
  { enemies[i].id : i \in { j \in 1..Len(enemies) : enemies[j].spawnRef = ref } }

\* C3: after an update that triggers no exit and no portal, every enemy and
\* elite descriptor of the current zone that is not killed and is closer than
\* spawnRadius to the player is active
C3_SpawnedWithinRadius ==
  (lastOp.op = "update" /\ ~lastOp.exit /\ ~lastOp.portal) =>
    \A ref \in EnemyRefs(currentZone) :
       (~Desc(currentZone, ref).killed
          /\ Within(player, Desc(currentZone, ref), spawnRadius))
       => Desc(currentZone, ref).active

\* an update has run in the first zone with the player at the spawn point,
\* and a descriptor closer than spawnRadius is active with an entity
C3_Witness ==
  /\ lastOp.op = "update" /\ ~lastOp.exit /\ ~lastOp.portal
  /\ Len(zoneLog) = 1
  /\ player = [x |-> currentZone.spawn.x, y |-> currentZone.spawn.y]
  /\ \E ref \in EnemyRefs(currentZone) :
       /\ Within(player, Desc(currentZone, ref), spawnRadius)
       /\ Desc(currentZone, ref).active
       /\ IdsOf(activeEnemies, ref) = { Desc(currentZone, ref).enemyId }

\* the live enemy and elite entities of active descriptors that are farther
\* than despawnRadius from the player
FarEntities ==
  { i \in 1..Len(activeEnemies) :
      /\ activeEnemies[i].spawnRef[1] # "boss"
      /\ ~activeEnemies[i].dead
      /\ Desc(currentZone, activeEnemies[i].spawnRef).active
      /\ Dist2(player.x, player.y, activeEnemies[i].x, activeEnemies[i].y)
           > despawnRadius * despawnRadius }

\* the descriptors that a despawn has left: not killed, not active, enemyId null
Despawned(zone) ==
  { ref \in EnemyRefs(zone) :
      /\ ~Desc(zone, ref).killed
      /\ ~Desc(zone, ref).active
      /\ Desc(zone, ref).enemyId = NoId }

\* C4: an update (the zone stays) despawns every live enemy/elite entity
\* farther than despawnRadius from the player: the entity leaves
\* activeEnemies and its descriptor is not active, not killed, with a null
\* enemyId; and an update with the player closer than spawnRadius to a
\* despawned descriptor makes it active again, with a new entity
C4_DespawnAndRespawn ==
  [][ (lastOp'.op = "update" /\ ~lastOp'.exit /\ currentZone # Null) =>
        /\ \A i \in FarEntities :
             /\ activeEnemies[i].id \notin
                  { activeEnemies'[j].id : j \in 1..Len(activeEnemies') }
             /\ activeEnemies[i].spawnRef \in Despawned(currentZone')
        /\ \A ref \in Despawned(currentZone) :
             Within(player, Desc(currentZone, ref), spawnRadius) =>
               /\ Desc(currentZone', ref).active
               /\ ~Desc(currentZone', ref).killed
               /\ Desc(currentZone', ref).enemyId >= nextEnemyId
               /\ IdsOf(activeEnemies', ref) = { Desc(currentZone', ref).enemyId }
    ]_vars

\* in a zone of one descriptor, the descriptor is active with the second
\* entity of the run while the first is no longer in State.enemies: it was
\* materialised, despawned and materialised again
C4_Witness ==
  /\ lastOp.op = "update"
  /\ Len(zoneLog) = 1
  /\ Cardinality(DescRefs(currentZone)) = 1
  /\ \E ref \in EnemyRefs(currentZone) :
       /\ Desc(currentZone, ref).active
       /\ Desc(currentZone, ref).enemyId = 2
       /\ IdsOf(activeEnemies, ref) = { 2 }
  /\ stateEnemies = << 2 >>

\* C5 as stated: an update never despawns the boss: a boss descriptor that is
\* active before an update is active after it
C5_BossNeverDespawned ==
  [][ (lastOp'.op = "update" /\ currentZone # Null /\ currentZone.bossSpawn # Null
         /\ currentZone.bossSpawn.active)
      => currentZone'.bossSpawn.active ]_vars

\* C6: killed is terminal: a kill notification leaves its descriptor killed
\* and not active, and while the zone stays, a killed descriptor stays killed
\* and not active and gets no new entity, whatever the step
C6_KilledIsTerminal ==
  [][ /\ lastOp'.op = "kill" =>
           /\ Desc(currentZone', lastOp'.ref).killed
           /\ ~Desc(currentZone', lastOp'.ref).active
      /\ (currentZone # Null /\ zoneLog' = zoneLog) =>
           \A ref \in DescRefs(currentZone) :
              Desc(currentZone, ref).killed =>
                /\ Desc(currentZone', ref).killed
                /\ ~Desc(currentZone', ref).active
                /\ IdsOf(activeEnemies', ref) \subseteq IdsOf(activeEnemies, ref)
    ]_vars

\* an update has run with the player closer than spawnRadius to a killed
\* descriptor, which is not active
C6_Witness ==
  /\ lastOp.op = "update" /\ ~lastOp.exit
  /\ \E ref \in DescRefs(currentZone) :
       /\ Desc(currentZone, ref).killed
       /\ ~Desc(currentZone, ref).active
       /\ Within(player, Desc(currentZone, ref), spawnRadius)

\* C7 as stated: after a kill notification the descriptor of the entity is
\* not active and its enemyId is cleared
C7_KillClearsDescriptor ==
  lastOp.op = "kill" =>
    /\ ~Desc(currentZone, lastOp.ref).active
    /\ Desc(currentZone, lastOp.ref).enemyId = NoId

(***************************************************************************)
(* The zones loadZone produces (SpecLoad)                                  *)
(***************************************************************************)
\* C2 as stated: two loads of the same index of the same act with the same
\* act seed produce the same zone, whatever was loaded in between
C2_ZoneFromSeedAndIndex ==
  \A i, j \in 1..Len(zoneLog) :
     (zoneLog[i].act = zoneLog[j].act /\ zoneLog[i].seed = zoneLog[j].seed
        /\ zoneLog[i].index = zoneLog[j].index)
     => zoneLog[i] = zoneLog[j]

\* whether the act's zones value and the index make a boss zone
IsBossIndex(zones, index) ==
  (index + 1) % (IF zones > 0 THEN zones ELSE 4) = 0

\* C8: a zone is a boss zone exactly when (index + 1) % bossInterval = 0; a
\* boss zone has a bossSpawn, no enemy and elite spawns and no exit; any
\* other zone has no bossSpawn and has an exit
C8_BossZones ==
  \A i \in 1..Len(zoneLog) :
     IF IsBossIndex(ActsData[zoneLog[i].act].zones, zoneLog[i].index)
     THEN /\ zoneLog[i].bossSpawn # Null
          /\ zoneLog[i].enemySpawns = << >>
          /\ zoneLog[i].eliteSpawns = << >>
          /\ zoneLog[i].exit = Null
     ELSE /\ zoneLog[i].bossSpawn = Null
          /\ zoneLog[i].exit # Null

\* the zone at index 3 of the act that leaves the interval to the default
\* was loaded, a boss zone, after a zone that is not one
C8_Witness ==
  /\ Len(zoneLog) > 1
  /\ zoneLog[Len(zoneLog)].act = "act2"
  /\ zoneLog[Len(zoneLog)].index = 3
  /\ zoneLog[Len(zoneLog)].bossSpawn # Null
  /\ zoneLog[1].bossSpawn = Null

(***************************************************************************)
(* SpawnGrid built and queried (SpecGrid)                                  *)
(***************************************************************************)
\* the number of spawns a grid holds
MaxGridSpawns == 2

\* the cell sizes handed to the constructor (0 stands for one below 64)
GridCellSizes == { 0, 64, 500 }

\* the positions of the spawns: around the origin, on cell borders, and far
\* enough out for the key of the cell to wrap onto the key of cell (0, 0)
GridPoints ==
  { [x |-> -65, y |-> -1], [x |-> -1, y |-> 63], [x |-> 0, y |-> 0],
    [x |-> 63, y |-> 64], [x |-> 64, y |-> -64], [x |-> 130, y |-> 500],
    [x |-> 4194314, y |-> 10], [x |-> 10, y |-> 4194368] }

\* the centres and radii of the queries
GridCentres == { [x |-> -1, y |-> -1], [x |-> 0, y |-> 64], [x |-> 4194304, y |-> 0] }
GridRadii == { 0, 1, 64, 100 }

\* the lists build is called with
GridLists ==
  { << >> } \cup { << a >> : a \in GridPoints }
            \cup { << a, b >> : a \in { [x |-> -1, y |-> 63], [x |-> 64, y |-> -64] },
                                b \in GridPoints }

\* what the probe keeps of a grid: the grid, the spawns it holds in the order
\* of their insertion, and the query made last with its result
GridProbe(grid, spawns, q, out) ==
  [op |-> "grid", grid |-> grid, spawns |-> spawns, q |-> q, out |-> out]

\* new SpawnGrid(cellSize)
GridCreate(cellSize) ==
  /\ probe = Null
  /\ probe' = GridProbe(SpawnGridNew(cellSize), << >>, Null, << >>)

\* grid.insert(spawn)
GridInsertOne(spawn) ==
  /\ probe # Null
  /\ Len(probe.spawns) < MaxGridSpawns
  /\ probe' = GridProbe(GridInsert(probe.grid, spawn, Len(probe.spawns) + 1),
                        Append(probe.spawns, spawn), Null, << >>)

\* grid.build(spawns)
GridBuildAll(spawns) ==
  /\ probe # Null
  /\ Len(spawns) <= MaxGridSpawns
  /\ probe' = GridProbe(GridBuild(probe.grid, spawns), spawns, Null, << >>)

\* grid.query(x, y, r)
GridQueryAt(c, r) ==
  /\ probe # Null
  /\ probe' = [probe EXCEPT !.q = [x |-> c.x, y |-> c.y, r |-> r],
                            !.out = GridQuery(probe.grid, c.x, c.y, r)]

NextGrid ==
  /\ \/ \E cellSize \in GridCellSizes : GridCreate(cellSize)
     \/ \E spawn \in GridPoints : GridInsertOne(spawn)
     \/ \E spawns \in GridLists : GridBuildAll(spawns)
     \/ \E c \in GridCentres, r \in GridRadii : GridQueryAt(c, r)
  /\ lastOp' = Op("grid")
  /\ UNCHANGED << currentAct, currentZone, zoneIndex, activeEnemies, enemyGrid,
                  eliteGrid, rngEncounters, stateEnemies, metaDepth, metaFreshness,
                  player, scene, nextEnemyId, zoneLog, unlockLog, pickLog, genRun >>

SpecGrid == Init /\ [][NextGrid]_vars

\* |a - b| <= r
Near(a, b, r) == a - b <= r /\ b - a <= r

\* the exact distance of the spawn to the centre of the query is <= r
InCircle(spawn, q) ==
  /\ Near(spawn.x, q.x, q.r)
  /\ Near(spawn.y, q.y, q.r)
  /\ Dist2(spawn.x, spawn.y, q.x, q.y) <= q.r * q.r

\* the spawns of the grid the query made last returned
Returned == { probe.out[k] : k \in 1..Len(probe.out) }

\* C11: query(x, y, r) returns every spawn of the grid whose exact distance
\* to (x, y) is <= r, whatever the cell size, the positions of the spawns and
\* the query box, negative coordinates and wrapped cell keys included
C11_QuerySuperset ==
  (probe # Null /\ probe.q # Null) =>
     \A i \in 1..Len(probe.spawns) :
        InCircle(probe.spawns[i], probe.q) => i \in Returned

\* a query whose box reaches negative coordinates returned a spawn inside the
\* circle and a spawn outside it, of a grid of two spawns
C11_Witness ==
  /\ probe # Null
  /\ probe.q # Null
  /\ probe.q.x - probe.q.r < 0
  /\ Len(probe.spawns) = 2
  /\ InCircle(probe.spawns[1], probe.q)
  /\ ~ InCircle(probe.spawns[2], probe.q)
  /\ Returned = { 1, 2 }

(***************************************************************************)
(* MapGenerator.createZoneSeed over the zone indices (SpecSeed)            *)
(***************************************************************************)
\* the number of consecutive zone indices, from 0 on, whose seeds are compared
MaxSeedRun == 1000

\* the act seeds
SeedActs == { U32(0), U32(42), << 65535, 65535 >> }

\* the zone indices looked at out of the run, up to 10,000,000
SeedFarIndices == { 65534, 65535, 9999999, 10000000 }

\* what the probe keeps: the act seed, the zone seeds of the indices
\* 0, 1, 2, ... in order, and the call with a far index made last
SeedProbe(actSeed, run, far) ==
  [op |-> "seed", actSeed |-> actSeed, run |-> run, far |-> far]

\* the first call fixes the act seed
SeedStart(actSeed) ==
  /\ probe = Null
  /\ probe' = SeedProbe(actSeed, << createZoneSeed(actSeed, 0) >>, Null)

\* createZoneSeed(actSeed, zoneIndex) for the next index of the run
SeedNext ==
  /\ probe # Null
  /\ Len(probe.run) < MaxSeedRun
  /\ probe' = [probe EXCEPT
                 !.run = Append(@, createZoneSeed(probe.actSeed, Len(probe.run)))]

\* createZoneSeed(actSeed, zoneIndex) for a far index and the index after it
SeedFar(index) ==
  /\ probe # Null
  /\ probe' = [probe EXCEPT
                 !.far = [index |-> index,
                          seed |-> createZoneSeed(probe.actSeed, index),
                          after |-> createZoneSeed(probe.actSeed, index + 1)]]

NextSeed ==
  /\ \/ \E actSeed \in SeedActs : SeedStart(actSeed)
     \/ SeedNext
     \/ \E index \in SeedFarIndices : SeedFar(index)
  /\ lastOp' = Op("seed")
  /\ UNCHANGED << currentAct, currentZone, zoneIndex, activeEnemies, enemyGrid,
                  eliteGrid, rngEncounters, stateEnemies, metaDepth, metaFreshness,
                  player, scene, nextEnemyId, zoneLog, unlockLog, pickLog, genRun >>

SpecSeed == Init /\ [][NextSeed]_vars

\* a value in [0, 2^32)
IsWord(u) == u[1] \in 0..(Half - 1) /\ u[2] \in 0..(Half - 1)

\* the seed of the index after is the seed of the index with one more
\* 0x9E3779B9 added, modulo 2^32, under the act seed: the product by
\* zoneIndex + 1 wraps as a sum of 32-bit words does
WrapsFrom(actSeed, seed, after) ==
  Xor32(after, actSeed) = Add32(Xor32(seed, actSeed), Golden)

\* C12: every zone seed is in [0, 2^32), for the indices of the run and for
\* the far indices up to 10,000,000; the product wraps modulo 2^32; and the
\* zone seeds of the consecutive indices of the run are pairwise distinct
C12_ZoneSeedRange ==
  probe # Null =>
    LET n == Len(probe.run)
    IN  /\ IsWord(probe.run[n])
        /\ \A i \in 1..(n - 1) : probe.run[i] # probe.run[n]
        /\ n > 1 => WrapsFrom(probe.actSeed, probe.run[n - 1], probe.run[n])
        /\ Xor32(probe.run[1], probe.actSeed) = Golden
        /\ probe.far # Null =>
             /\ IsWord(probe.far.seed)
             /\ IsWord(probe.far.after)
             /\ WrapsFrom(probe.actSeed, probe.far.seed, probe.far.after)

\* the run reached 1,000 indices, the last product being beyond 2^32, and
\* index 10,000,000 was looked at
C12_Witness ==
  /\ probe # Null
  /\ Len(probe.run) = 1000
  /\ probe.far # Null
  /\ probe.far.index = 10000000
  /\ probe.actSeed = U32(42)

(***************************************************************************)
(* MapGenerator.generate at the density caps, and the placement loop of    *)
(* generateEnemySpawns (SpecCaps)                                          *)
(***************************************************************************)
\* the act configurations: base densities that the depth ramp and the
\* modifiers carry beyond the caps, in zones small enough to count
CapActs ==
  { [id |-> "dense", seed |-> U32(42), biome |-> "space", zones |-> 0,
     generation |-> [enemyDensity |-> 100000000, eliteDensity |-> 20000000,
                     obstacleDensity |-> 60000000,
                     width |-> << wh[1] >>, height |-> << wh[2] >>],
     enemies |-> Null, boss |-> Null, modifiers |-> Null] :
    wh \in { << 90, 90 >>, << 60, 60 >>, << 4, 2000 >> } }

\* the depths, from 1 to beyond the end of the ramps
CapDepths == { 1, 50, 200, 10000 }

\* every layout
CapLayouts == { "OPEN", "CORRIDOR", "ARENA", "CLUTTERED", "CRAMPED" }

\* the modifier combinations: none, the ones of each density, all of them
CapMods ==
  { << >>, << "ELITE_PACKS" >>, << "BULLET_HELL", "FAST_ENEMIES" >>,
    << "ELITE_PACKS", "BULLET_HELL", "FAST_ENEMIES", "CRAMPED_ZONE", "MINEFIELD",
       "DENSE_OBSTACLES", "RICH_LOOT" >> }

\* MapGenerator.generate(actConfig, zoneSeed, {depth, mods, layout}): the
\* probe keeps the arguments, the final dimensions and the three counts
GenerateCapped(act, depth, mods, layout) ==
  /\ probe = Null
  /\ \E zone \in { generate(act, createZoneSeed(act.seed, depth - 1),
                           [depth |-> depth, mods |-> mods, layout |-> layout,
                            backdrop |-> "", seeds |-> Null]) } :
       probe' = [op |-> "generate", depth |-> depth, mods |-> mods, layout |-> layout,
                 width |-> zone.width, height |-> zone.height,
                 enemies |-> Len(zone.enemySpawns), elites |-> Len(zone.eliteSpawns),
                 obstacles |-> Len(zone.obstacles)]

\* the zone sizes, the densities (0, below the cap, the cap, beyond it, in
\* units of 1e-11) and the seeds generateEnemySpawns is called with
PlaceSizes == { << 90, 90 >>, << 4, 2000 >>, << 2000, 2000 >> }
PlaceDensities == { 0, 50000, 100000, 50000000, 120000000, 400000000 }
PlaceSeeds == { U32(7), << 40503, 31153 >> }

\* the target count of a placement, small enough to place
MaxTarget == 10

\* generateEnemySpawns(rng, pool, density, w, h, spawn, exit, {layout}): the
\* probe keeps the target count, the attempts made and the spawns accepted
PlaceEnemies(rng, density, w, h, layout) ==
  /\ probe = Null
  /\ CountFor(w, h, density) <= MaxTarget
  /\ \E r \in { generateEnemySpawns(rng, 0, << "grunt" >>, density, w, h,
                                    [x |-> w \div 2, y |-> h - 100],
                                    [x |-> w \div 2, y |-> 100], layout) } :
       probe' = [op |-> "place", layout |-> layout, width |-> w, height |-> h,
                 target |-> CountFor(w, h, density), attempts |-> r.attempts,
                 accepted |-> Len(r.spawns)]

NextCaps ==
  /\ \/ \E act \in CapActs, depth \in CapDepths, mods \in CapMods,
           layout \in CapLayouts : GenerateCapped(act, depth, mods, layout)
     \/ \E rng \in PlaceSeeds, density \in PlaceDensities, wh \in PlaceSizes,
           layout \in CapLayouts : PlaceEnemies(rng, density, wh[1], wh[2], layout)
  /\ lastOp' = Op("caps")
  /\ UNCHANGED << currentAct, currentZone, zoneIndex, activeEnemies, enemyGrid,
                  eliteGrid, rngEncounters, stateEnemies, metaDepth, metaFreshness,
                  player, scene, nextEnemyId, zoneLog, unlockLog, pickLog, genRun >>

SpecCaps == Init /\ [][NextCaps]_vars

\* whether the probe holds a call of generate
Capped == probe # Null /\ probe.op = "generate"

\* floor(width x height x cap) for the zone of the probe
CapCount(cap) == CountFor(probe.width, probe.height, cap)

Placed == probe # Null /\ probe.op = "place"

\* C14: generateEnemySpawns makes at most 3 x target attempts and returns at
\* most target points, for every density, zone size and layout
C14_PlacementTerminates ==
  Placed =>
    /\ probe.attempts <= 3 * probe.target
    /\ probe.accepted <= probe.target

\* a placement that used up its 3 x target attempts and under-filled, having
\* accepted some points
C14_Witness ==
  /\ Placed
  /\ probe.target > 0
  /\ probe.attempts = 3 * probe.target
  /\ probe.accepted > 0
  /\ probe.accepted < probe.target

(***************************************************************************)
(* World.init with an act id that has no configuration (SpecLoad)          *)
(***************************************************************************)
\* the step is a call of init that returned false
InitFailed == lastOp'.op = "init" /\ ~ lastOp'.ok

\* the step is a call of init that returned true
InitDone == lastOp'.op = "init" /\ lastOp'.ok

\* C15: a call of init that returns false leaves currentAct, currentZone,
\* zoneIndex, activeEnemies, the grids, the Depth/Modifier record, the
\* Freshness record and the player where they were; and init returns true
\* only for an act that has a configuration
C15_InitMissingActAtomic ==
  [][/\ InitFailed =>
          UNCHANGED << currentAct, currentZone, zoneIndex, activeEnemies, enemyGrid,
                       eliteGrid, rngEncounters, stateEnemies, metaDepth,
                       metaFreshness, player, scene >>
     /\ InitDone => currentAct'.id \in DOMAIN ActsData]_vars

\* init has returned false for a missing act while a zone loaded before it,
\* not the first of the act, is in place
C15_Witness ==
  /\ lastOp.op = "init"
  /\ ~ lastOp.ok
  /\ currentZone # Null
  /\ zoneIndex > 0
  /\ metaFreshness # Null

(***************************************************************************)
(* Bullets.pickRarityForDrop (src/runtime/Bullets.js).  A rarity table is  *)
(* the list of its [id, weight] rows in key order, the weights in          *)
(* hundredths.  The tilt is a multiple of 1/400, kept as its number of     *)
(* steps; a weight after the tilt is kept in units of 1/400000, which is   *)
(* exact.                                                                  *)
(***************************************************************************)
\* the default weights of the three tiers
RarityDefaults ==
  [normal |-> << [id |-> "common", weight |-> 100], [id |-> "uncommon", weight |-> 90],
                 [id |-> "rare", weight |-> 55], [id |-> "epic", weight |-> 20],
                 [id |-> "legendary", weight |-> 6], [id |-> "mythic", weight |-> 1] >>,
   elite  |-> << [id |-> "common", weight |-> 60], [id |-> "uncommon", weight |-> 90],
                 [id |-> "rare", weight |-> 120], [id |-> "epic", weight |-> 70],
                 [id |-> "legendary", weight |-> 18], [id |-> "mythic", weight |-> 3] >>,
   boss   |-> << [id |-> "common", weight |-> 25], [id |-> "uncommon", weight |-> 60],
                 [id |-> "rare", weight |-> 110], [id |-> "epic", weight |-> 90],
                 [id |-> "legendary", weight |-> 65], [id |-> "mythic", weight |-> 15] >>]

\* tierKey
TierKey(killData) ==
  IF killData.isBoss THEN "boss" ELSE IF killData.isElite THEN "elite" ELSE "normal"

\* weights: the table of the tier in State.data.config.loot.rarityBias, a
\* record of the tables it has, else the default one
RarityTable(bias, tierKey) ==
  IF bias # Null /\ tierKey \in DOMAIN bias THEN bias[tierKey] ELSE RarityDefaults[tierKey]

\* the unit of a weight after the tilt, and the steps of the tilt at its cap
TiltUnit == 4000
TiltCap == 100

\* a tilt that is not capped
TiltStepsUncapped(depth) == Max(0, Max(1, depth) - 50)

\* tilt = Math.min(0.25, Math.max(0, (d - 50) / 400)) with d = Math.max(1,
\* depth || 1), in steps of 1/400
TiltSteps(depth) == Min(TiltCap, Max(0, Max(1, depth) - 50))

\* the factor of the tilt on the weight of a rarity, in units of 1/4000:
\* 1 - 0.6 tilt, 1 - 0.4 tilt, 1 + 0.8 tilt, 1 + 1.2 tilt
TiltFactor(id, t) ==
  CASE id = "common"    -> TiltUnit - 6 * t
    [] id = "uncommon"  -> TiltUnit - 4 * t
    [] id = "legendary" -> TiltUnit + 8 * t
    [] id = "mythic"    -> TiltUnit + 12 * t
    [] OTHER            -> TiltUnit

\* the rarities the tilt assigns, in the order of the assignments
TiltedIds == << "common", "uncommon", "legendary", "mythic" >>

\* w: the copy of the table and, for tilt > 0, the four assignments; a rarity
\* the table lacks is assigned (undefined ?? 0) times its factor, after the
\* keys of the table
TiltedWeights(table, t) ==
  IF t = 0 THEN [i \in 1..Len(table) |-> [table[i] EXCEPT !.weight = @ * TiltUnit]]
  ELSE [i \in 1..Len(table) |->
          [table[i] EXCEPT !.weight = @ * TiltFactor(table[i].id, t)]]
       \o [i \in 1..Len(SelectSeq(TiltedIds,
                          LAMBDA id : \A j \in 1..Len(table) : table[j].id # id)) |->
             [id |-> SelectSeq(TiltedIds,
                       LAMBDA id : \A j \in 1..Len(table) : table[j].id # id)[i],
              weight |-> 0]]

\* the weighted pick over the entries of positive weight, with u the word of
\* rng.next(); null when the total is not positive
RarityPick(w, u) ==
  LET entries == SelectSeq(w, LAMBDA e : e.weight > 0)
  IN  IF SumWeights(entries, Len(entries)) <= 0 THEN NullStr
      ELSE entries[FirstRow(entries, u, SumWeights(entries, Len(entries)), 1)].id

\* pickRarityForDrop(killData, depth, rng), bias being
\* State.data.config.loot.rarityBias: the table chosen, the tilt in steps,
\* the weights after the tilt and the rarity returned
pickRarityForDrop(killData, depth, bias, u) ==
  Eval(TiltedWeights(RarityTable(bias, TierKey(killData)), TiltSteps(depth)),
       LAMBDA w : [table |-> RarityTable(bias, TierKey(killData)),
                   tilt |-> TiltSteps(depth), weights |-> w,
                   result |-> RarityPick(w, u)])

(***************************************************************************)
(* pickRarityForDrop over the tiers and the depths (SpecLoot)              *)
(***************************************************************************)
\* the kills
LootKills == [isElite : BOOLEAN, isBoss : BOOLEAN]

\* the depths: unset, around 50, around the cap of the tilt at 150, and far
LootDepths == { 0, 1, 50, 51, 100, 149, 150, 151, 10000 }

\* config.loot.rarityBias: absent; an elite table alone; a normal table that
\* has no legendary row and a common weight of 0, with a boss table
LootBiases ==
  { Null,
    [elite |-> << [id |-> "common", weight |-> 10], [id |-> "uncommon", weight |-> 20],
                  [id |-> "legendary", weight |-> 30], [id |-> "mythic", weight |-> 40] >>],
    [normal |-> << [id |-> "common", weight |-> 0], [id |-> "uncommon", weight |-> 50],
                   [id |-> "rare", weight |-> 10], [id |-> "mythic", weight |-> 1] >>,
     boss |-> << [id |-> "mythic", weight |-> 5], [id |-> "common", weight |-> 95] >>] }

\* the words rng.next() returns
LootWords == { U32(0), << 32768, 0 >>, << 65535, 65535 >> }

\* Bullets.pickRarityForDrop(killData, depth, rng)
PickRarity(killData, depth, bias, u) ==
  /\ probe = Null
  /\ probe' = [op |-> "rarity", killData |-> killData, depth |-> depth, bias |-> bias,
               out |-> pickRarityForDrop(killData, depth, bias, u)]
  /\ lastOp' = Op("rarity")
  /\ UNCHANGED << currentAct, currentZone, zoneIndex, activeEnemies, enemyGrid,
                  eliteGrid, rngEncounters, stateEnemies, metaDepth, metaFreshness,
                  player, scene, nextEnemyId, zoneLog, unlockLog, pickLog, genRun >>

NextLoot ==
  \E killData \in LootKills, depth \in LootDepths, bias \in LootBiases, u \in LootWords :
     PickRarity(killData, depth, bias, u)

SpecLoot == Init /\ [][NextLoot]_vars

\* the weight of a rarity in a list of rows, 0 when it has no row
WeightIn(rows, id) ==
  IF \E i \in 1..Len(rows) : rows[i].id = id
  THEN rows[CHOOSE i \in 1..Len(rows) : rows[i].id = id].weight
  ELSE 0

\* the table the claim names for the kill: boss, else elite, else normal
TableFor(killData, bias) ==
  LET tier == IF killData.isBoss THEN "boss"
              ELSE IF killData.isElite THEN "elite" ELSE "normal"
  IN  IF bias # Null /\ tier \in DOMAIN bias THEN bias[tier] ELSE RarityDefaults[tier]

\* the tilt the claim names, in steps of 1/400: 0 up to depth 50, then
\* min(0.25, (depth - 50) / 400)
TiltAt(depth) == IF depth <= 50 THEN 0 ELSE Min(100, depth - 50)

\* the table and the tilt are the ones the claim names, and up to depth 50 the
\* table is used unchanged
TableAndTilt ==
  /\ probe.out.table = TableFor(probe.killData, probe.bias)
  /\ probe.out.tilt = TiltAt(probe.depth)
  /\ probe.depth <= 50 =>
       /\ Len(probe.out.weights) = Len(probe.out.table)
       /\ \A i \in 1..Len(probe.out.table) :
            /\ probe.out.weights[i].id = probe.out.table[i].id
            /\ probe.out.weights[i].weight = probe.out.table[i].weight * TiltUnit

\* the weight of the rarity after the tilt is higher / lower than in the table
Raised(id) == WeightIn(probe.out.weights, id) > WeightIn(probe.out.table, id) * TiltUnit
Lowered(id) == WeightIn(probe.out.weights, id) < WeightIn(probe.out.table, id) * TiltUnit

\* C16 as stated: the table is the one of the tier, the tilt is 0 up to depth
\* 50 and min(0.25, (depth - 50) / 400) beyond, and for every depth > 50 the
\* legendary and mythic weights are strictly higher, the common and uncommon
\* weights strictly lower, than in the table
C16_RarityTilt ==
  (probe # Null /\ probe.op = "rarity") =>
     /\ TableAndTilt
     /\ probe.depth > 50 =>
          /\ Raised("legendary") /\ Raised("mythic")
          /\ Lowered("common") /\ Lowered("uncommon")

\* C16, amended: the same, the strict comparison holding for the rarities
\* whose weight in the table is positive; a weight that is 0 or has no row in
\* the table is 0 after the tilt
C16_RarityTiltPositive ==
  (probe # Null /\ probe.op = "rarity") =>
     /\ TableAndTilt
     /\ probe.depth > 50 =>
          /\ \A id \in { "legendary", "mythic" } :
               IF WeightIn(probe.out.table, id) > 0 THEN Raised(id)
               ELSE WeightIn(probe.out.weights, id) = 0
          /\ \A id \in { "common", "uncommon" } :
               IF WeightIn(probe.out.table, id) > 0 THEN Lowered(id)
               ELSE WeightIn(probe.out.weights, id) = 0

\* an elite kill beyond the cap of the tilt drew from the default elite table:
\* the four weights moved and a rarity was returned
C16_Witness ==
  /\ probe # Null
  /\ probe.op = "rarity"
  /\ probe.depth > 150
  /\ probe.killData = [isElite |-> TRUE, isBoss |-> FALSE]
  /\ probe.out.table = RarityDefaults.elite
  /\ probe.out.tilt = 100
  /\ Raised("legendary") /\ Raised("mythic")
  /\ Lowered("common") /\ Lowered("uncommon")
  /\ probe.out.result = "mythic"

(***************************************************************************)
(* The Freshness record under ensure, push and loadZone (SpecRing)         *)
(***************************************************************************)
\* the number of direct calls of ensure and push in one behaviour
MaxRingOps == 2
\* the number of zones loaded in one behaviour with direct calls
MaxRingLoads == 2

\* a history of n times the key
RingFill(n, key) == [i \in 1..n |-> key]

\* the Freshness records the profile starts with: none, and a full one of a
\* configured window of two
RingProfiles ==
  { Null,
    [window |-> 2, recent |-> RingFill(2, FreshnessKey("space", "OPEN", "A"))] }

\* cfg.window of the calls of ensure: absent, below and above the range
RingWindows == { << >>, << 0 >>, << 65 >> }

\* the keys pushed
RingKeys == { FreshnessKey("space", "OPEN", "A"), FreshnessKey("space", "ARENA", "B") }

InitRing ==
  /\ currentAct = Null
  /\ currentZone = Null
  /\ zoneIndex = 0
  /\ activeEnemies = << >>
  /\ enemyGrid = Null
  /\ eliteGrid = Null
  /\ rngEncounters = U32(0)
  /\ stateEnemies = << >>
  /\ metaDepth = Null
  /\ metaFreshness \in RingProfiles
  /\ player = [x |-> 0, y |-> 0]
  /\ scene = "game"
  /\ nextEnemyId = 1
  /\ lastOp = Op("none")
  /\ zoneLog = << >>
  /\ unlockLog = << >>
  /\ pickLog = << >>
  /\ genRun = Null
  /\ probe = [op |-> "none", cfgWindow |-> << >>, key |-> << >>, before |-> Null, n |-> 0]

\* Freshness.ensure(State.meta, cfg)
RingEnsure(cfgWindow) ==
  /\ probe.n < MaxRingOps
  /\ metaFreshness' = FreshnessEnsure(metaFreshness, cfgWindow)
  /\ probe' = [op |-> "ensure", cfgWindow |-> cfgWindow, key |-> << >>,
               before |-> metaFreshness, n |-> probe.n + 1]
  /\ lastOp' = Op("ensure")
  /\ UNCHANGED << currentAct, currentZone, zoneIndex, activeEnemies, enemyGrid,
                  eliteGrid, rngEncounters, stateEnemies, metaDepth, player, scene,
                  nextEnemyId, zoneLog, unlockLog, pickLog, genRun >>

\* Freshness.push(State.meta, key)
RingPush(key) ==
  /\ probe.n < MaxRingOps
  /\ metaFreshness' = FreshnessPush(metaFreshness, key)
  /\ probe' = [op |-> "push", cfgWindow |-> << >>, key |-> key,
               before |-> metaFreshness, n |-> probe.n + 1]
  /\ lastOp' = Op("push")
  /\ UNCHANGED << currentAct, currentZone, zoneIndex, activeEnemies, enemyGrid,
                  eliteGrid, rngEncounters, stateEnemies, metaDepth, player, scene,
                  nextEnemyId, zoneLog, unlockLog, pickLog, genRun >>

NextRing ==
  \/ \E cfgWindow \in RingWindows : RingEnsure(cfgWindow)
  \/ \E key \in RingKeys : RingPush(key)
  \/ /\ currentZone = Null
     /\ \E actId \in ActIds, seed \in InitSeeds : WorldInit(actId, seed)
  \/ /\ Len(zoneLog) < MaxRingLoads
     /\ \E code \in DevKeys : OnKeyDown(code)

SpecRing == InitRing /\ [][NextRing]_vars

\* the record is within its bounds
RingBounded(f) ==
  /\ f.window \in 1..64
  /\ Len(f.recent) <= f.window

\* the history before the last direct call, and with the key pushed
RingBefore == IF probe.before = Null THEN << >> ELSE probe.before.recent
RingPushed == Append(RingBefore, probe.key)

\* the last direct call was a push that overflowed the window
RingOverflowed ==
  /\ lastOp.op = "push"
  /\ Len(RingPushed) > metaFreshness.window

\* the key of the zone loadZone loaded last
ZoneKey ==
  FreshnessKey(IF currentAct.biome = "" THEN "space" ELSE currentAct.biome,
               currentZone.layout, currentZone.backdrop)

\* C17: after any calls of ensure, push and loadZone the window is within
\* 1..64 and the history is no longer than the window; the key pushed last
\* (by push, or by loadZone for its zone) is the last element, and a push that
\* overflows the window drops the oldest entries: the history is the last
\* window entries of the old history with the key appended
C17_FreshnessBounded ==
  /\ (lastOp.op # "none" /\ lastOp.ok) => metaFreshness # Null
  /\ metaFreshness # Null => RingBounded(metaFreshness)
  /\ (lastOp.op # "none" /\ lastOp.ok) =>
    /\ lastOp.op = "push" =>
         metaFreshness.recent[Len(metaFreshness.recent)] = probe.key
    /\ (lastOp.op \in { "init", "KeyN", "KeyP" } /\ lastOp.ok) =>
         metaFreshness.recent[Len(metaFreshness.recent)] = ZoneKey
    /\ RingOverflowed =>
         /\ Len(metaFreshness.recent) = metaFreshness.window
         /\ \A i \in 1..metaFreshness.window :
              metaFreshness.recent[i] =
                RingPushed[Len(RingPushed) - metaFreshness.window + i]

\* a push overflowed a window of more than one entry, and dropped a key that
\* differs from the one pushed
C17_Witness ==
  /\ RingOverflowed
  /\ metaFreshness.window > 1
  /\ RingBefore[1] # probe.key
  /\ metaFreshness.recent[1] = RingBefore[2]

(***************************************************************************)
(* DepthRules.sampleActive on profiles and act configurations (SpecSample) *)
(***************************************************************************)
\* a pool of ten modifiers: the default ones and three of the act's own
WidePool ==
  DEFAULT_POOL \o << [id |-> "STORM", weight |-> 5], [id |-> "SWARM", weight |-> 7],
                     [id |-> "VOID", weight |-> 4] >>

\* the act configurations: no override; a pool of two that lacks the default
\* baseline; the wide pool with a baseline of which one id is not in the pool;
\* a pool of two with an empty baseline
SampleActs ==
  { [modifiers |-> Null],
    [modifiers |-> [pool |-> << [id |-> "MINEFIELD", weight |-> 10],
                                [id |-> "RICH_LOOT", weight |-> 6] >>,
                    baseline |-> Null]],
    [modifiers |-> [pool |-> WidePool, baseline |-> << "ELITE_PACKS", "GHOST" >>]],
    [modifiers |-> [pool |-> << [id |-> "MINEFIELD", weight |-> 10],
                                [id |-> "RICH_LOOT", weight |-> 6] >>,
                    baseline |-> << >>]] }

\* State.meta.depth of the profiles: none, one unlock, two unlocks of the
\* wide pool, and every modifier of the wide pool unlocked
SampleProfiles ==
  { Null,
    [bestDepth |-> 30, unlocked |-> << "MINEFIELD" >>, lastUnlockAt |-> 25],
    [bestDepth |-> 60, unlocked |-> << "FAST_ENEMIES", "STORM" >>, lastUnlockAt |-> 50],
    [bestDepth |-> 1000,
     unlocked |-> [i \in 1..Len(WidePool) |-> WidePool[Len(WidePool) + 1 - i].id],
     lastUnlockAt |-> 250] }

\* the depths of the zones: around every step of the slot count
SampleDepths == { 1, 24, 25, 49, 50, 99, 100, 199, 200, 349, 350, 799, 800, 1000 }

InitSample ==
  /\ currentAct = Null
  /\ currentZone = Null
  /\ zoneIndex = 0
  /\ activeEnemies = << >>
  /\ enemyGrid = Null
  /\ eliteGrid = Null
  /\ rngEncounters = U32(0)
  /\ stateEnemies = << >>
  /\ metaDepth \in SampleProfiles
  /\ metaFreshness = Null
  /\ player = [x |-> 0, y |-> 0]
  /\ scene = "game"
  /\ nextEnemyId = 1
  /\ lastOp = Op("none")
  /\ zoneLog = << >>
  /\ unlockLog = << >>
  /\ pickLog = << >>
  /\ genRun = Null
  /\ probe = Null

\* DepthRules.sampleActive(depth, actConfig, rng) on the profile
SampleActive(depth, actConfig, rng) ==
  /\ metaDepth' = ensureMeta(metaDepth)
  /\ probe' = [op |-> "sampleActive", depth |-> depth, act |-> actConfig, rng |-> rng,
               unlocked |-> ensureMeta(metaDepth).unlocked,
               result |-> sampleActive(metaDepth, depth, actConfig, rng)]
  /\ lastOp' = Op("sampleActive")
  /\ UNCHANGED << currentAct, currentZone, zoneIndex, activeEnemies, enemyGrid,
                  eliteGrid, rngEncounters, stateEnemies, metaFreshness, player,
                  scene, nextEnemyId, zoneLog, unlockLog, pickLog, genRun >>

NextSample ==
  \E depth \in SampleDepths, actConfig \in SampleActs, rng \in UnlockSeeds :
     SampleActive(depth, actConfig, rng)

SpecSample == InitSample /\ [][NextSample]_vars

\* the slot count of a depth: one, and one more from each of the depths 25,
\* 50, 100 and 200 on, and from 200 on one more for every 150 levels
StepSlots(depth) ==
  1 + Cardinality({ b \in { 25, 50, 100, 200 } : depth >= b })
    + (IF depth >= 200 THEN (depth - 200) \div 150 ELSE 0)

\* the ids of a list of ids, and of the pool of the call
ModIds(ids) == { ids[i] : i \in 1..Len(ids) }
PoolIds == { ModifierPool(probe.act)[i].id : i \in 1..Len(ModifierPool(probe.act)) }

\* the baseline of the call: the act's override, else ELITE_PACKS
BaselineIds ==
  IF probe.act.modifiers # Null /\ probe.act.modifiers.baseline # Null
  THEN ModIds(probe.act.modifiers.baseline) ELSE { "ELITE_PACKS" }

\* the modifiers of the pool that are unlocked or baseline
Selectable == PoolIds \cap (ModIds(probe.unlocked) \cup BaselineIds)

NoDuplicates(ids) == \A i, j \in 1..Len(ids) : i # j => ids[i] # ids[j]

SlotsLeft == Len(probe.result) < Min(8, StepSlots(probe.depth))

CallPoolIds(call) ==
  { ModifierPool(call.act)[i].id : i \in 1..Len(ModifierPool(call.act)) }

\* a call at a milestone not yet recorded, with the whole pool unlocked
PoolExhausted(call) ==
  /\ call.depth >= 25
  /\ Milestone(call.depth) > call.before.lastUnlockAt
  /\ CallPoolIds(call) \subseteq ModIds(call.before.unlocked)

\* C20: every call of maybeUnlock leaves the unlocked list as it was or with
\* one id appended, which is the id returned, an id of the pool of the call
\* and not in the list before; the list never holds an id twice; a call at a
\* new milestone with the whole pool unlocked returns null, appends nothing
\* and records the milestone as lastUnlockAt
C20_UnlockFromPool ==
  /\ \A i \in 1..Len(unlockLog) :
       /\ Len(unlockLog[i].after.unlocked) >= Len(unlockLog[i].before.unlocked)
       /\ SubSeq(unlockLog[i].after.unlocked, 1, Len(unlockLog[i].before.unlocked))
            = unlockLog[i].before.unlocked
       /\ Appended(unlockLog[i]) =>
            /\ unlockLog[i].after.unlocked
                 = Append(unlockLog[i].before.unlocked, unlockLog[i].result)
            /\ unlockLog[i].result \in CallPoolIds(unlockLog[i])
            /\ unlockLog[i].result \notin ModIds(unlockLog[i].before.unlocked)
       /\ NoDuplicates(unlockLog[i].after.unlocked)
       /\ PoolExhausted(unlockLog[i]) =>
            /\ unlockLog[i].result = NullStr
            /\ ~Appended(unlockLog[i])
            /\ unlockLog[i].after.lastUnlockAt = Milestone(unlockLog[i].depth)
       /\ i > 1 => unlockLog[i].before = unlockLog[i - 1].after
  /\ unlockLog # << >> => metaDepth = unlockLog[Len(unlockLog)].after

\* two calls unlocked the two modifiers of a pool and the third, at the next
\* milestone, found the pool exhausted and recorded the milestone
C20_Witness ==
  /\ Len(unlockLog) = 3
  /\ Appended(unlockLog[1])
  /\ Appended(unlockLog[2])
  /\ PoolExhausted(unlockLog[3])
  /\ unlockLog[3].after.lastUnlockAt = 75
  /\ unlockLog[3].before.lastUnlockAt = 50

(***************************************************************************)
(* MapGenerator.generate on zones of several spawns (SpecZone)             *)
(***************************************************************************)
\* the number of calls of generate in one behaviour
MaxZoneCalls == 2

\* the acts: a square zone and a flat one, with densities (in units of 1e-11)
\* of a few enemies, elites and obstacles to the zone
ZoneActs ==
  { [id |-> "zone", seed |-> U32(42), biome |-> "space", zones |-> 0,
     generation |-> [enemyDensity |-> 500000, eliteDensity |-> 200000,
                     obstacleDensity |-> 600000,
                     width |-> << wh[1] >>, height |-> << wh[2] >>],
     enemies |-> Null, boss |-> Null, modifiers |-> Null] :
    wh \in { << 1000, 1000 >>, << 1400, 700 >> } }

\* the arguments of the first call of generate; the zone seeds put the spawn
\* point on the bottom edge and on either half of the left and right edges
ZoneInputs ==
  [act      : ZoneActs,
   zoneSeed : { U32(42), U32(7), U32(5), U32(10), U32(2) },
   depth    : { 1, 30 },
   mods     : { << >>, << "BULLET_HELL" >> },
   layout   : { "", "CORRIDOR", "ARENA", "CLUTTERED", "CRAMPED" }]

\* the arguments with the amount of obstacles changed: another base density,
\* or one of the obstacle modifiers added
ObstacleVariants(in) ==
  { [in EXCEPT !.act.generation.obstacleDensity = 1000000],
    [in EXCEPT !.mods = Append(@, "DENSE_OBSTACLES")],
    [in EXCEPT !.mods = Append(@, "MINEFIELD")] }

\* the calls made so far
ZoneCalls == IF probe = Null THEN << >> ELSE probe.calls

\* MapGenerator.generate(actConfig, zoneSeed, {depth, mods, layout}): the
\* first call fixes the arguments, the next calls change the obstacles only
GenerateZone ==
  /\ Len(ZoneCalls) < MaxZoneCalls
  /\ \E in \in (IF ZoneCalls = << >> THEN ZoneInputs
                ELSE ObstacleVariants(ZoneCalls[1].input)) :
     \E zone \in { generate(in.act, in.zoneSeed,
                            [depth |-> in.depth, mods |-> in.mods, layout |-> in.layout,
                             backdrop |-> "", seeds |-> Null]) } :
       probe' = [calls |-> Append(ZoneCalls,
                   [input |-> in, width |-> zone.width, height |-> zone.height,
                    spawn |-> zone.spawn, exit |-> zone.exit,
                    enemySpawns |-> zone.enemySpawns, eliteSpawns |-> zone.eliteSpawns,
                    obstacles |-> zone.obstacles])]
  /\ lastOp' = Op("generate")
  /\ UNCHANGED << currentAct, currentZone, zoneIndex, activeEnemies, enemyGrid,
                  eliteGrid, rngEncounters, stateEnemies, metaDepth, metaFreshness,
                  player, scene, nextEnemyId, zoneLog, unlockLog, pickLog, genRun >>

NextZone == GenerateZone

SpecZone == Init /\ [][NextZone]_vars

\* the minimum separation of the claim for the layout of a call
Separation(call) ==
  CASE call.input.layout \in { "", "OPEN" } -> 165
    [] call.input.layout = "CORRIDOR"       -> 140
    [] call.input.layout = "CLUTTERED"      -> 120
    [] call.input.layout = "CRAMPED"        -> 115
    [] OTHER                                -> 150

\* p is at least d from q
Apart(p, q, d) == Dist2(p.x, p.y, q.x, q.y) >= d * d

\* the spawns of a list keep the minimum distances of a call
Separated(call, spawns) ==
  \A i \in 1..Len(spawns) :
     /\ Apart(spawns[i], call.spawn, 300)
     /\ Apart(spawns[i], call.exit, 200)
     /\ \A j \in 1..Len(spawns) : i # j => Apart(spawns[i], spawns[j], Separation(call))

\* C21 as stated: the enemy spawns and the elite spawns of a zone are at
\* least 300 from the spawn point, 200 from the exit point and the layout's
\* minimum separation from the other spawns of their list
C21_SpawnsSeparated ==
  \A n \in 1..Len(ZoneCalls) :
     /\ Separated(ZoneCalls[n], ZoneCalls[n].enemySpawns)
     /\ Separated(ZoneCalls[n], ZoneCalls[n].eliteSpawns)

\* C21: the enemy spawns of a zone are at least 300 from the spawn point, 200
\* from the exit point and the layout's minimum separation from each other
C21_EnemySpawnsSeparated ==
  \A n \in 1..Len(ZoneCalls) : Separated(ZoneCalls[n], ZoneCalls[n].enemySpawns)

\* a corridor zone with at least three enemy spawns, two of which are within
\* 300 of each other
C21_Witness ==
  \E n \in 1..Len(ZoneCalls) :
     /\ ZoneCalls[n].input.layout = "CORRIDOR"
     /\ Len(ZoneCalls[n].enemySpawns) >= 3
     /\ \E i, j \in 1..Len(ZoneCalls[n].enemySpawns) :
          /\ i # j
          /\ ~Apart(ZoneCalls[n].enemySpawns[i], ZoneCalls[n].enemySpawns[j], 300)

\* the edge margins the spawn point of a call lies on
OnBottom(call) == call.spawn.y = call.height - 100
OnLeft(call)   == call.spawn.x = 100
OnRight(call)  == call.spawn.x = call.width - 100
OnTop(call)    == call.spawn.y = 100

\* C22: the spawn point of a zone is on the bottom, left or right edge margin
\* and not on the top one, and the exit point is on the opposite edge margin:
\* the top for a bottom spawn, the right for a left spawn and the left for a
\* right spawn, wherever the spawn is along its edge
C22_ExitOpposite ==
  \A n \in 1..Len(ZoneCalls) :
     /\ OnBottom(ZoneCalls[n]) \/ OnLeft(ZoneCalls[n]) \/ OnRight(ZoneCalls[n])
     /\ OnTop(ZoneCalls[n]) => (OnLeft(ZoneCalls[n]) \/ OnRight(ZoneCalls[n]))
     /\ (OnBottom(ZoneCalls[n]) /\ ~OnLeft(ZoneCalls[n]) /\ ~OnRight(ZoneCalls[n]))
          => ZoneCalls[n].exit.y = 100
     /\ (OnLeft(ZoneCalls[n]) /\ ~OnBottom(ZoneCalls[n]))
          => ZoneCalls[n].exit.x = ZoneCalls[n].width - 100
     /\ (OnRight(ZoneCalls[n]) /\ ~OnBottom(ZoneCalls[n]))
          => ZoneCalls[n].exit.x = 100

(***************************************************************************)
(* Bullets.checkLootDrop, kill after kill of one run (SpecDrop)            *)
(* A chance is in hundredths, << >> when the configuration has none; the   *)
(* run is [seed, lootSerial, hasLoot, loot, draws]: loot is the seed of    *)
(* State.run.rng.loot and draws the calls of next() it has served.         *)
(***************************************************************************)
TagITEM == FromString(<< 73, 84, 69, 77 >>)
TagLOOTFALLBACK ==
  FromString(<< 76, 79, 79, 84, 95, 70, 65, 76, 76, 66, 65, 67, 75 >>)

\* getLootRng(): the stream of the run, else a new one seeded from the world
\* seed (0) and 'LOOT_FALLBACK'
getLootRng(run) ==
  IF run.hasLoot THEN [seed |-> run.loot, k |-> run.draws]
  ELSE [seed |-> seedFromParts(<< U32(0), TagLOOTFALLBACK >>), k |-> 0]

\* v ?? d on a chance
ChanceOr(v, d) == IF v = << >> THEN d ELSE v[1]

\* dropChance before the luck: base, elite for an elite, boss for a boss
DropChance(cfg, killData) ==
  IF killData.isBoss THEN ChanceOr(cfg.bossDropChance, 85)
  ELSE IF killData.isElite THEN ChanceOr(cfg.eliteDropChance, 18)
  ELSE ChanceOr(cfg.baseDropChance, 2)

\* an item seed that leaves the serial out
itemSeedOfPlace(run, killData, depth) ==
  seedFromParts(<< run.seed, TagITEM, U32(killData.x), U32(killData.y), U32(depth) >>)

\* seedFromParts(State.run.seed, 'ITEM', State.run.lootSerial++, x|0, y|0, depth)
itemSeedOf(run, killData, depth) ==
  seedFromParts(<< run.seed, TagITEM, U32(run.lootSerial), U32(killData.x),
                   U32(killData.y), U32(depth) >>)

\* a pickup: the fields a kind does not have are 0 or null
Pickup(type, x, y, vx, vy, value, rarity, itemSeed) ==
  [type |-> type, x |-> x, y |-> y, vx |-> vx, vy |-> vy, value |-> value,
   rarity |-> rarity, itemSeed |-> itemSeed]

\* the item pickup, the stream s having served the chance roll
ItemPickup(run, s, killData, depth) ==
  Pickup("item", killData.x, killData.y,
         RangeOf(rngNext(s.seed, s.k + 3), -25, 25),
         RangeOf(rngNext(s.seed, s.k + 4), -50, -20), 0,
         pickRarityForDrop(killData, depth, Null, rngNext(s.seed, s.k + 2)).result,
         itemSeedOf(run, killData, depth))

\* the cells and scrap pickups, their three draws following draw k
CurrencyPickup(type, s, k, killData, value) ==
  Pickup(type, killData.x + RangeOf(rngNext(s.seed, k + 1), -10, 10), killData.y,
         RangeOf(rngNext(s.seed, k + 2), -20, 20),
         RangeOf(rngNext(s.seed, k + 3), -30, -10), value, NullStr, U32(0))

\* checkLootDrop once the item roll is made: item tells whether it passed and
\* k is the number of draws up to the cells pickup
DropsAfterItem(run, s, cfg, killData, depth, item, k) ==
  LET scrap == ChanceOf(rngNext(s.seed, k + 4), ChanceOr(cfg.scrapDropChance, 12), 100)
  IN  [run |-> [run EXCEPT !.lootSerial = @ + (IF item THEN 1 ELSE 0),
                           !.draws = IF run.hasLoot
                                     THEN k + 4 + (IF scrap THEN 3 ELSE 0) ELSE @],
       rolls |-> << [kind |-> "item", ok |-> item], [kind |-> "scrap", ok |-> scrap] >>,
       pickups |->
         (IF item THEN << ItemPickup(run, s, killData, depth) >> ELSE << >>)
         \o << CurrencyPickup("cells", s, k, killData,
                 IF killData.isBoss THEN 50 ELSE IF killData.isElite THEN 20 ELSE 5) >>
         \o (IF scrap
             THEN << CurrencyPickup("scrap", s, k + 4, killData,
                       IF killData.isBoss THEN 10 ELSE IF killData.isElite THEN 5 ELSE 1) >>
             ELSE << >>)]

\* a checkLootDrop whose scrap pickup is pushed whatever its roll
checkLootDropScrap(run, cfg, luck, depth, killData) ==
  Eval(DropsAfterItem(run, getLootRng(run), cfg, killData, depth,
         ChanceOf(rngNext(getLootRng(run).seed, getLootRng(run).k + 1),
                  DropChance(cfg, killData) * (100 + 2 * luck), 10000),
         getLootRng(run).k + 1
           + (IF ChanceOf(rngNext(getLootRng(run).seed, getLootRng(run).k + 1),
                          DropChance(cfg, killData) * (100 + 2 * luck), 10000)
              THEN 3 ELSE 0)),
       LAMBDA r : IF r.rolls[2].ok THEN r
                  ELSE [r EXCEPT !.pickups = Append(@,
                          CurrencyPickup("scrap", getLootRng(run), getLootRng(run).k,
                                         killData, 1))])

\* checkLootDrop(killData) with the loot configuration cfg, State.player.luck
\* and the depth of the current zone: the run afterwards, the chance rolls
\* made and the pickups pushed
checkLootDrop(run, cfg, luck, depth, killData) ==
  DropsAfterItem(run, getLootRng(run), cfg, killData, depth,
    ChanceOf(rngNext(getLootRng(run).seed, getLootRng(run).k + 1),
             DropChance(cfg, killData) * (100 + 2 * luck), 10000),
    getLootRng(run).k + 1
      + (IF ChanceOf(rngNext(getLootRng(run).seed, getLootRng(run).k + 1),
                     DropChance(cfg, killData) * (100 + 2 * luck), 10000)
         THEN 3 ELSE 0))

\* the number of kills in one behaviour
MaxKills == 5

\* config.loot: the defaults, and an item for every kill with scrap for half
DropCfgs ==
  { [baseDropChance |-> << >>, eliteDropChance |-> << >>, bossDropChance |-> << >>,
     scrapDropChance |-> << >>],
    [baseDropChance |-> << 100 >>, eliteDropChance |-> << >>, bossDropChance |-> << >>,
     scrapDropChance |-> << 50 >>] }

\* the kills: two places of a zone, and a boss at the first
DropKills ==
  { [x |-> 766, y |-> 100, isElite |-> FALSE, isBoss |-> FALSE],
    [x |-> 1480, y |-> 192, isElite |-> FALSE, isBoss |-> FALSE],
    [x |-> 766, y |-> 100, isElite |-> FALSE, isBoss |-> TRUE] }

\* the run at its start, with and without a loot stream of its own
DropRuns ==
  { [seed |-> U32(42), lootSerial |-> 0, hasLoot |-> b,
     loot |-> seedFromParts(<< U32(42), TagLOOT >>), draws |-> 0] : b \in BOOLEAN }

InitDrop ==
  /\ currentAct = Null
  /\ currentZone = Null
  /\ zoneIndex = 0
  /\ activeEnemies = << >>
  /\ enemyGrid = Null
  /\ eliteGrid = Null
  /\ rngEncounters = U32(0)
  /\ stateEnemies = << >>
  /\ metaDepth = Null
  /\ metaFreshness = Null
  /\ player = [x |-> 0, y |-> 0]
  /\ scene = "game"
  /\ nextEnemyId = 1
  /\ lastOp = Op("none")
  /\ zoneLog = << >>
  /\ unlockLog = << >>
  /\ pickLog = << >>
  /\ genRun = Null
  /\ probe \in [run : DropRuns, cfg : DropCfgs, luck : { 0, 10 }, depth : { 1, 60 },
                kills : { << >> }]

\* Bullets.checkLootDrop(killData) in the run
CheckLootDrop(killData) ==
  /\ Len(probe.kills) < MaxKills
  /\ \E r \in { checkLootDrop(probe.run, probe.cfg, probe.luck, probe.depth, killData) } :
       probe' = [probe EXCEPT
                   !.run = r.run,
                   !.kills = Append(@, [killData |-> killData, before |-> probe.run,
                                        rolls |-> r.rolls, pickups |-> r.pickups])]
  /\ lastOp' = Op("checkLootDrop")
  /\ UNCHANGED << currentAct, currentZone, zoneIndex, activeEnemies, enemyGrid,
                  eliteGrid, rngEncounters, stateEnemies, metaDepth, metaFreshness,
                  player, scene, nextEnemyId, zoneLog, unlockLog, pickLog, genRun >>

NextDrop == \E killData \in DropKills : CheckLootDrop(killData)

SpecDrop == InitDrop /\ [][NextDrop]_vars

\* the item pickups of kill i, and the kills that dropped an item
ItemsOf(i) == SelectSeq(probe.kills[i].pickups, LAMBDA p : p.type = "item")
ItemKills == { i \in 1..Len(probe.kills) : ItemsOf(i) # << >> }

\* the serial is used and advanced by one by every item drop, and by no
\* other kill
SerialStepped ==
  \A i \in 1..Len(probe.kills) :
     LET after == IF i = Len(probe.kills) THEN probe.run ELSE probe.kills[i + 1].before
     IN  /\ Len(ItemsOf(i)) <= 1
         /\ after.lootSerial = probe.kills[i].before.lootSerial + Len(ItemsOf(i))
         /\ probe.kills[i].before.lootSerial
              = Cardinality({ j \in ItemKills : j < i })

\* the places of two kills are the same
SamePlace(i, j) ==
  /\ probe.kills[i].killData.x = probe.kills[j].killData.x
  /\ probe.kills[i].killData.y = probe.kills[j].killData.y

\* C23 as stated: every item drop uses the serial and advances it by one, and
\* no two item drops of a run have the same item seed
C23_ItemSeedsDistinct ==
  /\ SerialStepped
  /\ \A i, j \in ItemKills : i # j => ItemsOf(i)[1].itemSeed # ItemsOf(j)[1].itemSeed

\* C23: every item drop uses the serial and advances it by one, and no two
\* item drops of a run at the same place and depth have the same item seed
C23_ItemSeedsDistinctInPlace ==
  /\ SerialStepped
  /\ \A i, j \in ItemKills :
       (i # j /\ SamePlace(i, j)) => ItemsOf(i)[1].itemSeed # ItemsOf(j)[1].itemSeed

\* two kills at the same place both dropped an item
C23_Witness ==
  \E i, j \in ItemKills :
     /\ i < j
     /\ SamePlace(i, j)
     /\ ItemsOf(j)[1].itemSeed # ItemsOf(i)[1].itemSeed
     /\ probe.kills[j].before.lootSerial > probe.kills[i].before.lootSerial

\* the pickups of a kind a kill pushed, and whether its roll of a kind passed
KindOf(kill, type) == SelectSeq(kill.pickups, LAMBDA p : p.type = type)
RollPassed(kill, kind) ==
  \E n \in 1..Len(kill.rolls) : kill.rolls[n].kind = kind /\ kill.rolls[n].ok

\* the run after kill i
RunAfter(i) == IF i = Len(probe.kills) THEN probe.run ELSE probe.kills[i + 1].before

\* the pickups of a kill take their values from the loot stream: a run with a
\* stream of its own draws two rolls and three values for every pickup from
\* it, and in a run without one, where every kill starts the same stream
\* anew, two kills at the same place of the same tier roll the same and push
\* the same pickups up to the item seed
FromLootStream ==
  /\ \A i \in 1..Len(probe.kills) :
       probe.kills[i].before.hasLoot =>
         RunAfter(i).draws
           = probe.kills[i].before.draws + 2 + 3 * Len(probe.kills[i].pickups)
  /\ \A i, j \in 1..Len(probe.kills) :
       (~probe.run.hasLoot /\ probe.kills[i].killData = probe.kills[j].killData) =>
         /\ probe.kills[i].rolls = probe.kills[j].rolls
         /\ Len(probe.kills[i].pickups) = Len(probe.kills[j].pickups)
         /\ \A n \in 1..Len(probe.kills[i].pickups) :
              [probe.kills[i].pickups[n] EXCEPT !.itemSeed = U32(0)]
                = [probe.kills[j].pickups[n] EXCEPT !.itemSeed = U32(0)]

OtherMods(mods) ==
  SelectSeq(mods, LAMBDA m : m \notin { "DENSE_OBSTACLES", "MINEFIELD" })

\* two calls whose arguments differ at most in the amount of obstacles: the
\* base obstacle density and the modifiers DENSE_OBSTACLES and MINEFIELD
SameButObstacles(a, b) ==
  /\ [a.input.act EXCEPT !.generation.obstacleDensity = 0]
       = [b.input.act EXCEPT !.generation.obstacleDensity = 0]
  /\ a.input.zoneSeed = b.input.zoneSeed
  /\ a.input.depth = b.input.depth
  /\ a.input.layout = b.input.layout
  /\ OtherMods(a.input.mods) = OtherMods(b.input.mods)

\* C25: two calls of generate whose arguments differ only in the amount of
\* obstacles return the same list of enemy spawns: the same positions, types
\* and patrols in the same order
C25_EnemiesUnperturbed ==
  \A i, j \in 1..Len(ZoneCalls) :
     SameButObstacles(ZoneCalls[i], ZoneCalls[j]) =>
       ZoneCalls[i].enemySpawns = ZoneCalls[j].enemySpawns

\* the second call placed more obstacles than the first, at other places,
\* and the same enemies, of which there are several
C25_Witness ==
  /\ Len(ZoneCalls) = 2
  /\ ZoneCalls[1].input # ZoneCalls[2].input
  /\ SameButObstacles(ZoneCalls[1], ZoneCalls[2])
  /\ Len(ZoneCalls[2].obstacles) > Len(ZoneCalls[1].obstacles)
  /\ ZoneCalls[1].obstacles # SubSeq(ZoneCalls[2].obstacles, 1, Len(ZoneCalls[1].obstacles))
  /\ Len(ZoneCalls[1].enemySpawns) >= 3
  /\ ZoneCalls[2].enemySpawns = ZoneCalls[1].enemySpawns

(***************************************************************************)
(* SpecTick: World.update when the entity factory returns no entity.       *)
(* Enemies.spawn is a callback of the game; spawnEnemy and spawnBoss       *)
(* assign to its result at once (enemy.spawnRef = spawn), which throws a   *)
(* TypeError on null or undefined, and neither they nor update catch it.   *)
(***************************************************************************)
\* the call of the factory, counted within one update, that returns no
\* entity (0: every call returns one)
FactoryFaults == { 0, 1, 2 }

\* the world of one update with the count of factory calls and whether an
\* exception is in flight
TickWorld == World @@ [calls |-> 0, thrown |-> FALSE]

\* World.spawnEnemy(spawn, isElite) when call failAt of the factory returns
\* no entity: the assignment to enemy.spawnRef throws before anything is set
spawnEnemyOrThrow(w, ref, isElite, failAt) ==
  IF w.calls + 1 = failAt
  THEN [w EXCEPT !.calls = @ + 1, !.thrown = TRUE]
  ELSE [spawnEnemy(w, ref, isElite) EXCEPT !.calls = @ + 1]

\* World.spawnBoss(spawn) when call failAt of the factory returns no entity
spawnBossOrThrow(w, ref, failAt) ==
  IF w.calls + 1 = failAt
  THEN [w EXCEPT !.calls = @ + 1, !.thrown = TRUE]
  ELSE [spawnBoss(w, ref) EXCEPT !.calls = @ + 1]

RECURSIVE TickSpawnLoop(_, _, _, _, _, _, _)
\* the enemy loop and the elite loop of update; an exception leaves the loop
TickSpawnLoop(w, p, kind, candidates, i, isElite, failAt) ==
  IF w.thrown \/ i > Len(candidates) THEN w
  ELSE Eval(IF ShouldSpawn(Desc(w.zone, << kind, candidates[i] >>), p)
            THEN spawnEnemyOrThrow(w, << kind, candidates[i] >>, isElite, failAt)
            ELSE w,
            LAMBDA wn : TickSpawnLoop(wn, p, kind, candidates, i + 1, isElite, failAt))

\* the boss check of update
TickBossCheck(w, p, failAt) ==
  LET spawn == w.zone.bossSpawn
  IN  IF spawn # Null /\ ~spawn.killed /\ ~spawn.active
         /\ 4 * Dist2(p.x, p.y, spawn.x, spawn.y) < 9 * spawnRadius * spawnRadius
      THEN spawnBossOrThrow(w, << "boss", 1 >>, failAt) ELSE w

\* update up to the exit check; an exception skips every later statement
TickSpawns(w, p, eGrid, lGrid, failAt) ==
  LET w1 == TickSpawnLoop(w, p, "enemy", GridQuery(eGrid, p.x, p.y, spawnRadius), 1,
                          FALSE, failAt)
      W2(a) == IF a.thrown THEN a ELSE DespawnLoop(a, p, a.activeEnemies, 1)
      W3(a) == IF a.thrown THEN a
               ELSE TickSpawnLoop(a, p, "elite", GridQuery(lGrid, p.x, p.y, spawnRadius),
                                  1, TRUE, failAt)
      W4(a) == IF a.thrown THEN a ELSE TickBossCheck(a, p, failAt)
  IN  Eval(Eval(Eval(w1, W2), W3), W4)

\* World.update(dt) when call failAt of the factory returns no entity: the
\* exception leaves update, and what was assigned before it stays
UpdateTick(dt, failAt) ==
  /\ currentZone # Null
  /\ \E w \in { TickSpawns(TickWorld, player, enemyGrid, eliteGrid, failAt) } :
       /\ w.nextEnemyId <= MaxEnemyId + 1
       /\ stateEnemies' = w.stateEnemies
       /\ nextEnemyId' = w.nextEnemyId
       /\ lastOp' = [Op("update") EXCEPT
                       !.ok = ~w.thrown,
                       !.exit = ~w.thrown /\ ExitReached(w.zone, player),
                       !.portal = ~w.thrown /\ ~ExitReached(w.zone, player)
                                  /\ PortalReached(w.zone, player)]
       /\ CASE w.thrown ->
                 /\ currentZone' = w.zone
                 /\ rngEncounters' = w.rngEncounters
                 /\ activeEnemies' = w.activeEnemies
                 /\ UNCHANGED << zoneIndex, enemyGrid, eliteGrid, metaDepth,
                                 metaFreshness, player, zoneLog, scene >>
            [] ~w.thrown /\ ExitReached(w.zone, player) ->
                 /\ zoneIndex < MaxZoneIndex
                 /\ Len(zoneLog) < MaxWorldLoads
                 /\ LoadZoneStep(currentAct, zoneIndex + 1)
                 /\ UNCHANGED scene
            [] OTHER ->
                 /\ currentZone' = w.zone
                 /\ rngEncounters' = w.rngEncounters
                 /\ activeEnemies' = updateEnemyPatrols(w.activeEnemies, dt)
                 /\ scene' = IF PortalReached(w.zone, player) THEN "hub" ELSE scene
                 /\ UNCHANGED << zoneIndex, enemyGrid, eliteGrid, metaDepth,
                                 metaFreshness, player, zoneLog >>
  /\ UNCHANGED << currentAct, unlockLog, pickLog, genRun, probe >>

NextTick ==
  \/ /\ currentZone = Null
     /\ \E actId \in ActIds, seed \in InitSeeds : WorldInit(actId, seed)
  \/ MovePlayer
  \/ \E dt \in Dts, failAt \in FactoryFaults : UpdateTick(dt, failAt)
  \/ \E i \in 1..MaxEnemyId : Kill(i)

SpecTick == Init /\ [][NextTick]_vars

\* C26: an update in which the factory returned no entity for one descriptor
\* still performs the rest of the tick: no live entity of an active
\* descriptor is left farther than despawnRadius from the player, the exit
\* in reach is taken, and a portal in reach is entered
C26_FailureSkippedLocally ==
  (lastOp.op = "update" /\ ~lastOp.ok) =>
    /\ FarEntities = {}
    /\ ~ExitReached(currentZone, player)
    /\ PortalReached(currentZone, player) => scene = "hub"

(***************************************************************************)
(* C27: entities and descriptors of the current zone                       *)
(***************************************************************************)
\* the positions in activeEnemies of the entities tied to the descriptor
\* with its enemyId
EntitiesOf(ref) ==
  { i \in 1..Len(activeEnemies) :
      /\ activeEnemies[i].spawnRef = ref
      /\ activeEnemies[i].id = Desc(currentZone, ref).enemyId }

\* C27: every entity in activeEnemies is tied to a descriptor of the current
\* zone that is active and carries the entity's id, and every active
\* descriptor has exactly one such entity in activeEnemies
C27_EntitiesMatchDescriptors ==
  currentZone # Null =>
    /\ \A i \in 1..Len(activeEnemies) :
         /\ activeEnemies[i].spawnRef \in DescRefs(currentZone)
         /\ Desc(currentZone, activeEnemies[i].spawnRef).active
         /\ Desc(currentZone, activeEnemies[i].spawnRef).enemyId = activeEnemies[i].id
    /\ \A ref \in DescRefs(currentZone) :
         Desc(currentZone, ref).active => Cardinality(EntitiesOf(ref)) = 1

(***************************************************************************)
(* SpecWalk: the player walks from the spawn point of each zone to its     *)
(* exit, or to a portal once there is one; update runs every frame.        *)
(***************************************************************************)
\* the number of zones loaded in one behaviour of the walk
MaxWalkLoads == 3
\* the number of entities the factory hands out in one behaviour of the walk
MaxWalkIds == 6

\* the player moves into reach of the exit or of a portal
ToGate ==
  /\ MovePlayer
  /\ ExitReached(currentZone, player') \/ PortalReached(currentZone, player')

\* World.update(dt) of the walk
UpdateWalk == \E dt \in Dts : UpdateUpTo(dt, MaxWalkLoads, MaxWalkIds)

NextWalk ==
  \/ /\ currentZone = Null
     /\ \E actId \in ActIds, seed \in InitSeeds : WorldInit(actId, seed)
  \/ ToGate
  \/ UpdateWalk
  \/ \E i \in 1..MaxWalkIds : Kill(i)

\* whether update can run: the guards of UpdateWalk
UpdateDue ==
  /\ currentZone # Null
  /\ UpdateSpawns(World, player, enemyGrid, eliteGrid).nextEnemyId <= MaxWalkIds + 1
  /\ ExitReached(currentZone, player) =>
       zoneIndex < MaxZoneIndex /\ Len(zoneLog) < MaxWalkLoads

\* the game loop calls update every frame: while update can run, it runs
\* again and again (weak fairness of UpdateWalk, with its enabling condition
\* written out as the state predicate UpdateDue)
EveryFrame == []<>(~UpdateDue) \/ []<>(lastOp.op = "update")

\* the player keeps heading for the exit, and update runs every frame
SpecWalk ==
  Init /\ [][NextWalk]_vars /\ WF_vars(ToGate) /\ EveryFrame

\* the zone indices whose successor the walk may still load
WalkIndices == 0..(MaxWalkLoads - 2)

\* from the zone of index k, update loads the zone of index k + 1
Advances(k) ==
  (currentZone # Null /\ zoneIndex = k) ~> (zoneIndex = k + 1)

\* from the zone of index k, when it has an exit, update loads the zone of
\* index k + 1
AdvancesFromExit(k) ==
  (currentZone # Null /\ zoneIndex = k /\ currentZone.exit # Null) ~> (zoneIndex = k + 1)

\* the zone index changes only in an update whose exit check fires, by one
AdvancesByExit ==
  [][zoneIndex' # zoneIndex =>
       /\ lastOp'.op = "update"
       /\ ExitReached(currentZone, player)
       /\ zoneIndex' = zoneIndex + 1]_vars

\* a zone has just been loaded: the player is at its spawn point
Fresh ==
  /\ currentZone # Null
  /\ (lastOp.op = "init" /\ lastOp.ok) \/ (lastOp.op = "update" /\ lastOp.exit)

\* the exit check does not fire in a zone just loaded
FreshKeepsZone ==
  [](Fresh => /\ player = [x |-> currentZone.spawn.x, y |-> currentZone.spawn.y]
              /\ ~ExitReached(currentZone, player))

\* a boss zone has no exit, and the zone index stays while it is current
BossZoneStays ==
  /\ [](currentZone # Null => (currentZone.isBossZone <=> currentZone.exit = Null))
  /\ [][(currentZone # Null /\ currentZone.isBossZone) => zoneIndex' = zoneIndex]_vars

MaxPickCalls == 3

\* the state 0x92D4860B: the next state is 0, and next() returns 0
ZeroState == << 37588, 34315 >>

\* the rng states the picks start from
PickStates == { U32(42), U32(7), U32(1), U32(99), ZeroState }

\* the option lists, weights in hundredths: a weightless option first, in
\* the middle, last, and nothing but weightless options
PickOptions ==
  { FreshOptions,
    << [id |-> "a", weight |-> 100], [id |-> "z", weight |-> 0],
       [id |-> "b", weight |-> 50] >>,
    << [id |-> "a", weight |-> 100], [id |-> "b", weight |-> 50],
       [id |-> "z", weight |-> 0] >>,
    << [id |-> "z", weight |-> 0], [id |-> "y", weight |-> 0] >> }

InitPick ==
  /\ currentAct = Null
  /\ currentZone = Null
  /\ zoneIndex = 0
  /\ activeEnemies = << >>
  /\ enemyGrid = Null
  /\ eliteGrid = Null
  /\ rngEncounters = U32(0)
  /\ stateEnemies = << >>
  /\ metaDepth = Null
  /\ metaFreshness = Null
  /\ player = [x |-> 0, y |-> 0]
  /\ scene = "game"
  /\ nextEnemyId = 1
  /\ lastOp = Op("none")
  /\ zoneLog = << >>
  /\ unlockLog = << >>
  /\ pickLog = << >>
  /\ genRun = Null
  /\ probe \in [rng : PickStates, options : PickOptions, penaltyBase : FreshPenalties,
                f : { [window |-> 2, recent |-> << >>] }, calls : { << >> }]

\* Freshness.pick(rng, options, o => o.id, meta, penaltyBase) on the next draw
\* of the rng, and Freshness.push of the key picked
Pick ==
  /\ Len(probe.calls) < MaxPickCalls
  /\ \E keys \in { [i \in 1..Len(probe.options) |-> probe.options[i].id] } :
     \E u \in { rngNext(probe.rng, 1) } :
     \E chosen \in { FreshnessPick(u, probe.options, keys, probe.f, probe.penaltyBase) } :
       probe' = [probe EXCEPT
                   !.rng = Advance(probe.rng, 1),
                   !.f = FreshnessPush(probe.f, keys[chosen]),
                   !.calls = Append(@,
                      [u |-> u, chosen |-> chosen,
                       rows |-> PenalisedRows(probe.options, keys, probe.f,
                                              probe.penaltyBase)])]
  /\ lastOp' = Op("pick")
  /\ UNCHANGED << currentAct, currentZone, zoneIndex, activeEnemies, enemyGrid,
                  eliteGrid, rngEncounters, stateEnemies, metaDepth, metaFreshness,
                  player, scene, nextEnemyId, zoneLog, unlockLog, pickLog, genRun >>

NextPick == Pick

SpecPick == InitPick /\ [][NextPick]_vars

\* C29: a pick returns an option of penalised weight 0 only when every
\* option has penalised weight 0, and then it returns options[0]
C29_NoZeroWeightPick ==
  \A i \in 1..Len(probe.calls) :
     LET call == probe.calls[i]
     IN  IF \E k \in 1..Len(call.rows) : call.rows[k].weight > 0
         THEN call.rows[call.chosen].weight > 0
         ELSE call.chosen = 1

(***************************************************************************)
(* SpecMeta: the Depth/Modifier record under loadZone, maybeUnlock and     *)
(* recordDepth, called with depths in any order.                           *)
(***************************************************************************)
\* the number of calls in one behaviour, World.init included
MaxMetaOps == 4

\* the zone indices loadZone is called with: depths 1 and 50
MetaIndices == { 0, 49 }

\* the depths maybeUnlock and recordDepth are called with
MetaDepths == { 1, 25, 50 }

\* the act configuration maybeUnlock is called with: a pool of two modifiers
MetaActs == { a \in UnlockActs : a.modifiers # Null }

\* the direct calls of recordDepth so far
Records == IF probe = Null THEN 0 ELSE probe.records

\* the calls so far
MetaOps == Len(zoneLog) + Len(unlockLog) + Records

\* World.loadZone(index), called for any index
LoadZoneAt(index) ==
  /\ currentAct # Null
  /\ MetaOps < MaxMetaOps
  /\ LoadZoneStep(currentAct, index)
  /\ lastOp' = Op("loadZone")
  /\ UNCHANGED << currentAct, stateEnemies, scene, nextEnemyId, unlockLog, pickLog,
                  genRun, probe >>

\* DepthRules.recordDepth(depth) on the profile
RecordDepth(depth) ==
  /\ MetaOps < MaxMetaOps
  /\ metaDepth' = recordDepth(metaDepth, depth)
  /\ probe' = [records |-> Records + 1]
  /\ lastOp' = Op("recordDepth")
  /\ UNCHANGED << currentAct, currentZone, zoneIndex, activeEnemies, enemyGrid,
                  eliteGrid, rngEncounters, stateEnemies, metaFreshness, player,
                  scene, nextEnemyId, zoneLog, unlockLog, pickLog, genRun >>

NextMeta ==
  \/ /\ currentZone = Null
     /\ MetaOps < MaxMetaOps
     /\ \E actId \in ActIds : WorldInit(actId, << 42 >>)
  \/ \E index \in MetaIndices : LoadZoneAt(index)
  \/ /\ MetaOps < MaxMetaOps
     /\ \E depth \in MetaDepths, actConfig \in MetaActs :
          MaybeUnlock(depth, actConfig, U32(1))
  \/ \E depth \in MetaDepths : RecordDepth(depth)

SpecMeta == Init /\ [][NextMeta]_vars

\* the depths passed to maybeUnlock so far, by loadZone and directly
UnlockDepthsSoFar ==
  { zoneLog[i].index + 1 : i \in 1..Len(zoneLog) }
  \cup { unlockLog[i].depth : i \in 1..Len(unlockLog) }

\* no field of the record goes down in a step
MetaGrows ==
  /\ ensureMeta(metaDepth').bestDepth >= ensureMeta(metaDepth).bestDepth
  /\ ensureMeta(metaDepth').lastUnlockAt >= ensureMeta(metaDepth).lastUnlockAt
  /\ Len(ensureMeta(metaDepth').unlocked) >= Len(ensureMeta(metaDepth).unlocked)

\* bestDepth covers the depths loaded, and lastUnlockAt is 0 or a multiple of
\* 25 that some depth passed to maybeUnlock has reached
MetaInRange ==
  /\ \A i \in 1..Len(zoneLog) : ensureMeta(metaDepth).bestDepth >= zoneLog[i].index + 1
  /\ \/ ensureMeta(metaDepth).lastUnlockAt = 0
     \/ /\ ensureMeta(metaDepth).lastUnlockAt % UNLOCK_EVERY_DEPTH = 0
        /\ \E d \in UnlockDepthsSoFar : ensureMeta(metaDepth).lastUnlockAt <= d

\* C30: over any sequence of loadZone, maybeUnlock and recordDepth calls,
\* bestDepth never decreases and is at least every depth loaded so far,
\* lastUnlockAt never decreases and is 0 or a multiple of 25 not above the
\* highest depth passed to maybeUnlock, and the number of unlocked modifiers
\* never decreases
C30_MetaMonotone == [][MetaGrows]_vars /\ []MetaInRange

\* a lower depth is revisited after a higher one: after depth 50 was loaded
\* and unlocked at, a call for a depth below it leaves bestDepth and
\* lastUnlockAt at 50
C30_Witness ==
  /\ lastOp.op \in { "maybeUnlock", "recordDepth", "loadZone" }
  /\ Len(zoneLog) = 2 /\ zoneLog[2].index = 49
  /\ \/ lastOp.op = "maybeUnlock" /\ unlockLog[Len(unlockLog)].depth = 25
     \/ lastOp.op = "recordDepth"
  /\ metaDepth.bestDepth = 50
  /\ metaDepth.lastUnlockAt = 50
  /\ Len(metaDepth.unlocked) >= 1

=============================================================================
